---- MODULE Spec2Model ----
(***************************************************************************)
(* Codebase Copilot: file discovery with ignore filtering, relevance       *)
(* scoring, the four-mode context builder of ChatProvider and the chat     *)
(* turn protocol between the webview and the extension host.               *)
(*                                                                         *)
(* Short strings (paths, file names, queries) are sequences of one-letter  *)
(* strings, so that includes / toLowerCase / split / extname are computed. *)
(* File contents are symbolic texts: a text has an identity, a length, a   *)
(* count of leading whitespace characters and, per regular expression, the *)
(* number of its case-insensitive matches.  An assembled context is a      *)
(* sequence of parts (literal text, a path, a number, a prefix of a text). *)
(***************************************************************************)
EXTENDS Integers, Sequences, FiniteSets, TLC

\* ------------------------------------------------------------------------
\* Strings
\* ------------------------------------------------------------------------

Min(a, b) == IF a < b THEN a ELSE b

Max(a, b) == IF a > b THEN a ELSE b

UpperToLower == ("A" :> "a") @@ ("B" :> "b") @@ ("T" :> "t") @@ ("S" :> "s")

LowerChar(c) == IF c \in DOMAIN UpperToLower THEN UpperToLower[c] ELSE c

\* String.prototype.toLowerCase
ToLower(s) == [i \in 1..Len(s) |-> LowerChar(s[i])]

\* String.prototype.includes
Includes(s, sub) ==
    \E i \in 0..(Len(s) - Len(sub)) : SubSeq(s, i + 1, i + Len(sub)) = sub

StartsWith(s, pre) == Len(pre) <= Len(s) /\ SubSeq(s, 1, Len(pre)) = pre

EndsWith(s, suf) ==
    Len(suf) <= Len(s) /\ SubSeq(s, Len(s) - Len(suf) + 1, Len(s)) = suf

WhiteSpace == {" ", "\n", "\t"}

\* Index of the last occurrence of character c in s, 0 when there is none
LastIndexOf(s, c) ==
    LET hits == {i \in 1..Len(s) : s[i] = c}
    IN  IF hits = {} THEN 0 ELSE CHOOSE i \in hits : \A j \in hits : j <= i

\* Index of the first whitespace character of s, Len(s) + 1 when none
FirstWs(s) ==
    LET hits == {i \in 1..Len(s) : s[i] \in WhiteSpace}
    IN  IF hits = {} THEN Len(s) + 1
        ELSE CHOOSE i \in hits : \A j \in hits : i <= j

RECURSIVE SplitWs(_)
\* query.split(/\s+/): the maximal runs of non-whitespace characters (the
\* empty strings that split yields at the ends are dropped by the length
\* filter of every caller)
SplitWs(s) ==
    IF s = <<>> THEN <<>>
    ELSE IF s[1] \in WhiteSpace THEN SplitWs(Tail(s))
    ELSE LET k == FirstWs(s)
         IN  <<SubSeq(s, 1, k - 1)>> \o SplitWs(SubSeq(s, k, Len(s)))

\* path.basename
Basename(p) == SubSeq(p, LastIndexOf(p, "/") + 1, Len(p))

\* path.extname: from the last dot of the base name, "" when there is no dot
\* or the only dot is the first character
ExtName(p) ==
    LET b == Basename(p)
        d == LastIndexOf(b, ".")
    IN  IF d <= 1 THEN <<>> ELSE SubSeq(b, d, Len(b))

\* path.join(dir, item) made relative to the workspace root
JoinPath(dir, item) == IF dir = <<>> THEN item ELSE dir \o <<"/">> \o item


\* ------------------------------------------------------------------------
\* Ignore matcher (CodebaseAnalyzer.setupIgnoreFilter, ignoreFilter.ignores)
\* ------------------------------------------------------------------------

\* A rule of the ignore filter.  kind "under": 'd/**' (anchored at the root,
\* everything below d); "exact": 'name'; "suffix": '*x'; "prefix": 'x*';
\* "dironly": 'name/' (matches a directory only).  neg: a leading '!'.
Rule(kind, arg, neg) == [kind |-> kind, arg |-> arg, neg |-> neg]

\* The default ignores, in the order they are added (the filter matches
\* case-insensitively: the rules are written in lower case)
DefaultRules ==
    << Rule("under", <<"n", "o", "d", "e", "_", "m", "o", "d", "u", "l", "e", "s">>, FALSE),
       Rule("under", <<".", "g", "i", "t">>, FALSE),
       Rule("under", <<"d", "i", "s", "t">>, FALSE),
       Rule("under", <<"b", "u", "i", "l", "d">>, FALSE),
       Rule("under", <<"o", "u", "t">>, FALSE),
       Rule("under", <<"t", "a", "r", "g", "e", "t">>, FALSE),
       Rule("under", <<".", "v", "s", "c", "o", "d", "e">>, FALSE),
       Rule("suffix", <<".", "l", "o", "g">>, FALSE),
       Rule("prefix", <<".", "e", "n", "v">>, FALSE),
       Rule("suffix", <<".", "m", "i", "n", ".", "j", "s">>, FALSE),
       Rule("suffix", <<".", "m", "i", "n", ".", "c", "s", "s">>, FALSE),
       Rule("exact", <<"p", "a", "c", "k", "a", "g", "e", "-", "l", "o", "c", "k", ".", "j", "s", "o", "n">>, FALSE),
       Rule("exact", <<"y", "a", "r", "n", ".", "l", "o", "c", "k">>, FALSE),
       Rule("exact", <<".", "d", "s", "_", "s", "t", "o", "r", "e">>, FALSE),
       Rule("exact", <<"t", "h", "u", "m", "b", "s", ".", "d", "b">>, FALSE) >>

\* The rule lists a project's .gitignore may add: none (also a missing or
\* unreadable file), a directory rule 'secret/', and '*.md' with '!keep.md'
GitIgnores ==
    { <<>>,
      << Rule("dironly", <<"s", "e", "c", "r", "e", "t">>, FALSE) >>,
      << Rule("suffix", <<".", "m", "d">>, FALSE), Rule("exact", <<"k", "e", "e", "p", ".", "m", "d">>, TRUE) >> }

StripSlash(t) ==
    IF t # <<>> /\ t[Len(t)] = "/" THEN SubSeq(t, 1, Len(t) - 1) ELSE t

\* One rule's regular expression tested on the lower-cased path lt, whose last
\* component is comp; lt ends with "/" when it names a directory
RuleMatches(r, lt, comp) ==
    CASE r.kind = "under"   -> Len(lt) > Len(r.arg) + 1
                               /\ SubSeq(lt, 1, Len(r.arg) + 1) = r.arg \o <<"/">>
      [] r.kind = "exact"   -> comp = r.arg
      [] r.kind = "suffix"  -> EndsWith(comp, r.arg)
      [] r.kind = "prefix"  -> StartsWith(comp, r.arg)
      [] r.kind = "dironly" -> lt[Len(lt)] = "/" /\ comp = r.arg
      [] OTHER              -> FALSE

\* Whether rule r is not consulted: it cannot change the outcome so far
RuleSkipped(r, ignored, unignored) ==
    \/ (unignored = r.neg /\ ignored # unignored)
    \/ (r.neg /\ ~ignored /\ ~unignored)

RECURSIVE TestRules(_, _, _, _, _, _)
\* The rules applied in order to one path: a later matching rule overrides an
\* earlier one; a negative rule re-includes
TestRules(rules, lt, comp, i, ignored, unignored) ==
    IF i > Len(rules) THEN ignored
    ELSE IF ~RuleSkipped(rules[i], ignored, unignored) /\ RuleMatches(rules[i], lt, comp)
         THEN TestRules(rules, lt, comp, i + 1, ~rules[i].neg, rules[i].neg)
         ELSE TestRules(rules, lt, comp, i + 1, ignored, unignored)

\* The filter matches case-insensitively
TestPath(rules, lt) == TestRules(rules, lt, Basename(StripSlash(lt)), 1, FALSE, FALSE)

RECURSIVE IgnoresFrom(_, _, _)
\* ignoreFilter.ignores(relativePath): the parent directories are tested
\* first, outermost first (k: where the search for the next "/" starts); a
\* path below an ignored directory is ignored; otherwise the rules decide
IgnoresFrom(rules, t, k) ==
    IF k >= Len(t) THEN TestPath(rules, ToLower(t))
    ELSE IF t[k] = "/" /\ TestPath(rules, ToLower(SubSeq(t, 1, k))) THEN TRUE
    ELSE IgnoresFrom(rules, t, k + 1)

Ignores(rules, t) == IgnoresFrom(rules, t, 1)

\* ------------------------------------------------------------------------
\* Texts and the workspace file system
\* ------------------------------------------------------------------------

\* A text: len characters, the first lead of them whitespace, and for each
\* regular expression w the number n of its case-insensitive matches
Text(id, len, lead, hits) == [id |-> id, len |-> len, lead |-> lead, hits |-> hits]

Hit(w, n) == [w |-> w, n |-> n]

NoText == Text(<<>>, 0, 0, {})

Matches(text, w) ==
    LET m == {h \in text.hits : h.w = w}
    IN  IF m = {} THEN 0 ELSE (CHOOSE h \in m : TRUE).n

\* A directory entry.  stat / read / list: whether statSync, readFileSync and
\* readdirSync succeed on it.
File(dir, name, text) ==
    [dir |-> dir, name |-> name, kind |-> "file", text |-> text,
     stat |-> TRUE, read |-> TRUE, list |-> TRUE]

Dir(dir, name) ==
    [dir |-> dir, name |-> name, kind |-> "dir", text |-> NoText,
     stat |-> TRUE, read |-> TRUE, list |-> TRUE]

RelPath(e) == JoinPath(e.dir, e.name)

\* export interface CodeFile
CodeFile(path, text) == [path |-> path, content |-> text, size |-> text.len]

codeExtensions ==
    { <<".", "j", "s">>, <<".", "t", "s">>, <<".", "j", "s", "x">>, <<".", "t", "s", "x">>, <<".", "p", "y">>, <<".", "j", "a", "v", "a">>, <<".", "c", "p", "p">>, <<".", "c">>, <<".", "h">>,
      <<".", "c", "s">>, <<".", "g", "o">>, <<".", "r", "s">>, <<".", "p", "h", "p">>, <<".", "r", "b">>, <<".", "s", "w", "i", "f", "t">>, <<".", "k", "t">>, <<".", "s", "c", "a", "l", "a">>, <<".", "c", "l", "j">>,
      <<".", "h", "t", "m", "l">>, <<".", "c", "s", "s">>, <<".", "s", "c", "s", "s">>, <<".", "s", "a", "s", "s">>, <<".", "j", "s", "o", "n">>, <<".", "x", "m", "l">>, <<".", "y", "a", "m", "l">>, <<".", "y", "m", "l">>,
      <<".", "m", "d">>, <<".", "t", "x", "t">>, <<".", "s", "h">>, <<".", "b", "a", "t">> }

\* Limit file size to avoid overwhelming the API
MaxFileSize == 50000

\* fs.readdirSync(dir): the entries of dir in listing order
Items(fsys, dir) == SelectSeq(fsys, LAMBDA e : e.dir = dir)

\* Whether readdirSync(dir) succeeds: dir is the root, or a listable directory
Listable(fsys, dir) ==
    \/ dir = <<>>
    \/ \E i \in 1..Len(fsys) :
          fsys[i].kind = "dir" /\ RelPath(fsys[i]) = dir /\ fsys[i].list

\* The read with the cap taken inclusively (size <= 50000)
ReadCodeFileAtCap(e) ==
    IF e.read /\ e.text.len <= MaxFileSize
    THEN <<CodeFile(RelPath(e), e.text)>>
    ELSE <<>>

\* The inner try of searchFiles: read the file, keep it when below the cap
ReadCodeFile(e) ==
    IF e.read /\ e.text.len < MaxFileSize
    THEN <<CodeFile(RelPath(e), e.text)>>
    ELSE <<>>

\* The filter asked about the item's name in place of its relative path
SkippedByName(rules, e) == Ignores(rules, e.name)

\* The item is left out by the ignore filter
Skipped(rules, e) == Ignores(rules, RelPath(e))

RECURSIVE ConcatRange(_, _, _)
\* seqs[lo] \o ... \o seqs[hi]
ConcatRange(seqs, lo, hi) ==
    IF lo > hi THEN <<>>
    ELSE IF lo = hi THEN seqs[lo]
    ELSE LET mid == (lo + hi) \div 2
         IN  ConcatRange(seqs, lo, mid) \o ConcatRange(seqs, mid + 1, hi)

RECURSIVE SearchFiles(_, _, _), VisitItem(_, _, _)
\* searchFiles(dir): a failing readdirSync leaves the directory out.  statSync
\* is inside the outer try only: at the first item that is not ignored and
\* whose statSync throws, the loop over this directory ends (stop).
SearchFiles(fsys, rules, dir) ==
    IF ~Listable(fsys, dir) THEN <<>>
    ELSE LET items    == Items(fsys, dir)
             throwsAt == {i \in 1..Len(items) :
                             ~Skipped(rules, items[i]) /\ ~items[i].stat}
             stop     == IF throwsAt = {} THEN Len(items) + 1
                         ELSE CHOOSE i \in throwsAt : \A j \in throwsAt : i <= j
         IN  ConcatRange([i \in 1..(stop - 1) |-> VisitItem(fsys, rules, items[i])],
                         1, stop - 1)

\* The body of the for loop of searchFiles for one item: the files it pushes
VisitItem(fsys, rules, e) ==
    IF Skipped(rules, e) THEN <<>>
    ELSE IF e.kind = "dir" THEN SearchFiles(fsys, rules, RelPath(e))
    ELSE IF ToLower(ExtName(e.name)) \in codeExtensions THEN ReadCodeFile(e)
    ELSE <<>>

\* A workspace: root is "ok", "none" (no folder open, workspaceRoot = '') or
\* "gone" (the folder does not exist on disk)
GetAllCodeFiles(ws) ==
    IF ws.root = "ok" THEN SearchFiles(ws.fs, ws.rules, <<>>) ELSE <<>>

\* A call of the fs module on a relative path
Access(op, path) == [op |-> op, path |-> path]

\* The first item of a directory listing whose statSync throws and ends the
\* loop, or the number of items when none does
LastVisited(rules, items) ==
    LET throwsAt == {i \in 1..Len(items) : ~Skipped(rules, items[i]) /\ ~items[i].stat}
    IN  IF throwsAt = {} THEN Len(items)
        ELSE CHOOSE i \in throwsAt : \A j \in throwsAt : i <= j

RECURSIVE SearchAccesses(_, _, _), VisitAccesses(_, _, _)
\* The loop body testing the ignore filter for files only
VisitAccessesDirsUnfiltered(fsys, rules, e) ==
    IF e.kind # "dir" /\ Skipped(rules, e) THEN {}
    ELSE {Access("statSync", RelPath(e))}
         \cup (IF ~e.stat THEN {}
               ELSE IF e.kind = "dir" THEN SearchAccesses(fsys, rules, RelPath(e))
               ELSE IF ToLower(ExtName(e.name)) \in codeExtensions
                    THEN {Access("readFileSync", RelPath(e))}
               ELSE {})

\* The fs calls searchFiles(dir) makes: readdirSync(dir), then the calls of
\* the loop body for each item, up to the first whose statSync throws
SearchAccesses(fsys, rules, dir) ==
    {Access("readdirSync", dir)}
    \cup (IF ~Listable(fsys, dir) THEN {}
          ELSE UNION {VisitAccesses(fsys, rules, Items(fsys, dir)[i]) :
                         i \in 1..LastVisited(rules, Items(fsys, dir))})

\* The fs calls of the loop body for one item: none for an ignored item
\* (continue), else statSync and, as the item is a directory or a code file,
\* the calls of searchFiles on it or readFileSync
VisitAccesses(fsys, rules, e) ==
    IF Skipped(rules, e) THEN {}
    ELSE {Access("statSync", RelPath(e))}
         \cup (IF ~e.stat THEN {}
               ELSE IF e.kind = "dir" THEN SearchAccesses(fsys, rules, RelPath(e))
               ELSE IF ToLower(ExtName(e.name)) \in codeExtensions
                    THEN {Access("readFileSync", RelPath(e))}
               ELSE {})

\* The fs calls of getAllCodeFiles() below the workspace root
GetAllAccesses(ws) ==
    IF ws.root = "ok" THEN SearchAccesses(ws.fs, ws.rules, <<>>) ELSE {}


\* ------------------------------------------------------------------------
\* Relevance scoring (CodebaseAnalyzer.calculateRelevanceScore)
\* ------------------------------------------------------------------------

Quantifiers == {"*", "+", "?"}

Count(s, c) == Cardinality({i \in 1..Len(s) : s[i] = c})

\* new RegExp(word, 'gi') throws a SyntaxError: a quantifier with nothing to
\* repeat, an unterminated group or an unterminated character class
RegexThrows(word) ==
    \/ word # <<>> /\ word[1] \in Quantifiers
    \/ \E i \in 1..(Len(word) - 1) :
          word[i] \in {"*", "+", "("} /\ word[i + 1] \in {"*", "+"}
    \/ Count(word, "(") # Count(word, ")")
    \/ Count(word, "[") > Count(word, "]")

\* query.toLowerCase().split(/\s+/).filter(word => word.length > 2)
QueryWords(query) == SelectSeq(SplitWs(ToLower(query)), LAMBDA w : Len(w) > 2)

\* Whether calculateRelevanceScore(file, query) throws
ScoreThrows(query) ==
    \E i \in 1..Len(QueryWords(query)) : RegexThrows(QueryWords(query)[i])

NameWeight == 10

ExtWeight == 5

MatchCap == 5

SmallSize == 1000

MediumSize == 5000

\* fileExt.substring(1): the extension without its dot
FileExtWord(file) ==
    LET fileExt == ToLower(ExtName(file.path))
    IN  SubSeq(fileExt, 2, Len(fileExt))

WordScore(file, word) ==
    (IF Includes(ToLower(file.path), word) THEN NameWeight ELSE 0)
    + (IF Includes(word, FileExtWord(file)) THEN ExtWeight ELSE 0)
    + Min(Matches(file.content, word), MatchCap)

RECURSIVE SumWords(_, _, _)
SumWords(file, words, i) ==
    IF i > Len(words) THEN 0
    ELSE WordScore(file, words[i]) + SumWords(file, words, i + 1)

SizeBonus(file) ==
    IF file.size < SmallSize THEN 2 ELSE IF file.size < MediumSize THEN 1 ELSE 0

CalculateRelevanceScore(file, query) ==
    SumWords(file, QueryWords(query), 1) + SizeBonus(file)

\* {...file, score}
Scored(file, query) ==
    [path |-> file.path, content |-> file.content, size |-> file.size,
     score |-> CalculateRelevanceScore(file, query)]

\* The files left in the order discovery produced them
SortNone(files) == files

\* .sort((a, b) => b.score - a.score): descending and stable.  The place of
\* element i is one more than the number of elements that come before it:
\* those of a higher score, and those of its score that precede it.
SortByScore(files) ==
    LET n       == Len(files)
        rank(i) == 1 + Cardinality({j \in 1..n :
                        \/ files[j].score > files[i].score
                        \/ files[j].score = files[i].score /\ j < i})
    IN  [r \in 1..n |-> files[CHOOSE i \in 1..n : rank(i) = r]]

\* Array.prototype.slice(0, end)
Slice(s, end) ==
    IF end < 0 THEN SubSeq(s, 1, Max(Len(s) + end, 0))
    ELSE SubSeq(s, 1, Min(end, Len(s)))

\* getRelevantFiles(query, maxFiles): an exception of the scoring is caught
\* and the empty list returned
GetRelevantFiles(ws, query, maxFiles) ==
    LET allFiles == GetAllCodeFiles(ws)
    IN  IF ws.root = "none" THEN <<>>
        ELSE IF Len(allFiles) = 0 THEN <<>>
        ELSE IF ScoreThrows(query) THEN <<>>
        ELSE Slice(SortByScore([i \in 1..Len(allFiles) |-> Scored(allFiles[i], query)]),
                   maxFiles)


\* ------------------------------------------------------------------------
\* Context assembly (ChatProvider.buildContextFromSelection and its builders)
\* ------------------------------------------------------------------------

\* The parts of an assembled string: a literal, a path, a number, and the
\* first n characters of a text
Lit(s) == [k |-> "lit", s |-> s, p |-> <<>>, t |-> NoText, n |-> 0]

PathPart(p) == [k |-> "path", s |-> "", p |-> p, t |-> NoText, n |-> 0]

Num(n) == [k |-> "num", s |-> "", p |-> <<>>, t |-> NoText, n |-> n]

Body(t, n) == [k |-> "body", s |-> "", p |-> <<>>, t |-> t, n |-> n]

BlankLiterals == {"", "\n", "\n\n", " "}

PartIsBlank(part) ==
    CASE part.k = "lit"  -> part.s \in BlankLiterals
      [] part.k = "path" -> \A i \in 1..Len(part.p) : part.p[i] \in WhiteSpace
      [] part.k = "num"  -> FALSE
      [] part.k = "body" -> part.n <= part.t.lead
      [] OTHER           -> FALSE

\* context.trim() === ''
IsBlank(ctx) == \A i \in 1..Len(ctx) : PartIsBlank(ctx[i])

GeneralNotice ==
    <<Lit("No specific code context found. Please provide general programming assistance.")>>

ErrorNotice ==
    <<Lit("Error accessing codebase context. Providing general assistance.")>>

NoCurrentFileNotice == <<Lit("No current file is open.")>>

NoFilesSelectedNotice ==
    <<Lit("No files selected. Please select files using the file selector.")>>

TruncatedMarker == Lit("\n... (truncated)")

\* The active editor: open, the document's workspace-relative path and text
NoEditor == [open |-> FALSE, rel |-> <<>>, text |-> NoText]

Editor(rel, text) == [open |-> TRUE, rel |-> rel, text |-> text]

\* getCurrentFileName(): null is the empty name
GetCurrentFileName(ed) == IF ed.open THEN Basename(ed.rel) ELSE <<>>

\* currentFile && currentFileName: a null and an empty string are both falsy
HasCurrentFile(ed) == ed.open /\ ed.text.len > 0 /\ GetCurrentFileName(ed) # <<>>

\* The builder with no notice for a missing file
BuildCurrentFileOrEmpty(ed) ==
    IF HasCurrentFile(ed)
    THEN <<Lit("Current file: "), PathPart(ed.rel), Lit("\n\nContent:\n"),
           Body(ed.text, ed.text.len)>>
    ELSE <<>>

BuildCurrentFileContext(ed) ==
    IF HasCurrentFile(ed)
    THEN <<Lit("Current file: "), PathPart(ed.rel), Lit("\n\nContent:\n"),
           Body(ed.text, ed.text.len)>>
    ELSE NoCurrentFileNotice

\* The lookup falling back to the first file of the list
FindFileOrFirst(files, filePath) ==
    LET hits == {i \in 1..Len(files) : files[i].path = filePath}
    IN  IF hits = {} THEN Min(1, Len(files)) ELSE CHOOSE i \in hits : \A j \in hits : i <= j

\* this.availableFiles.find(f => f.path === filePath): the index, 0 if none
FindFile(files, filePath) ==
    LET hits == {i \in 1..Len(files) : files[i].path = filePath}
    IN  IF hits = {} THEN 0 ELSE CHOOSE i \in hits : \A j \in hits : i <= j

\* for (const filePath of selectedFiles): a path with no file adds nothing
SelectedBlocks(selected, files) ==
    ConcatRange([i \in 1..Len(selected) |->
                    LET j == FindFile(files, selected[i])
                    IN  IF j = 0 THEN <<>>
                        ELSE <<Lit("--- File: "), PathPart(files[j].path), Lit(" ---\n"),
                               Body(files[j].content, files[j].content.len),
                               Lit("\n\n")>>],
                1, Len(selected))

\* The builder without its test for an empty selection
BuildSelectedNoNotice(selected, files) ==
    <<Lit("Selected files ("), Num(Len(selected)), Lit("):\n\n")>>
    \o SelectedBlocks(selected, files)

BuildSelectedFilesContext(selected, files) ==
    IF Len(selected) = 0 THEN NoFilesSelectedNotice
    ELSE <<Lit("Selected files ("), Num(Len(selected)), Lit("):\n\n")>>
         \o SelectedBlocks(selected, files)

\* content.length > limit ? content.substring(0, limit) + marker : content
Truncated(text, limit) ==
    IF text.len > limit THEN <<Body(text, limit), TruncatedMarker>>
    ELSE <<Body(text, text.len)>>

NumberedBlock(file, index, limit) ==
    <<Lit("--- File "), Num(index), Lit(": "), PathPart(file.path), Lit(" ---\n")>>
    \o Truncated(file.content, limit) \o <<Lit("\n\n")>>

currentFileIndicators ==
    { <<"w", "h", "a", "t", " ", "d", "o", "e", "s", " ", "t", "h", "i", "s", " ", "d", "o">>, <<"e", "x", "p", "l", "a", "i", "n", " ", "t", "h", "i", "s">>, <<"h", "o", "w", " ", "d", "o", "e", "s", " ", "t", "h", "i", "s", " ", "w", "o", "r", "k">>,
      <<"w", "h", "a", "t", " ", "i", "s", " ", "t", "h", "i", "s">>, <<"i", "m", "p", "r", "o", "v", "e", " ", "t", "h", "i", "s">>, <<"f", "i", "x", " ", "t", "h", "i", "s">>, <<"d", "e", "b", "u", "g", " ", "t", "h", "i", "s">>,
      <<"t", "h", "i", "s", " ", "f", "u", "n", "c", "t", "i", "o", "n">>, <<"t", "h", "i", "s", " ", "c", "l", "a", "s", "s">>, <<"t", "h", "i", "s", " ", "c", "o", "d", "e">> }

IsQueryAboutCurrentFile(query, currentFileName) ==
    LET lowerQuery == ToLower(query)
    IN  \/ Includes(lowerQuery, ToLower(currentFileName))
        \/ Includes(lowerQuery, <<"t", "h", "i", "s", " ", "f", "i", "l", "e">>)
        \/ Includes(lowerQuery, <<"c", "u", "r", "r", "e", "n", "t", " ", "f", "i", "l", "e">>)
        \/ \E indicator \in currentFileIndicators : Includes(lowerQuery, indicator)

\* A configuration value: unset (config.get returns undefined) or a number
Unset == [set |-> FALSE, val |-> 0]

Setting(v) == [set |-> TRUE, val |-> v]

\* "codebaseCopilot.maxContextFiles": "default": 5
SchemaDefault == 5

DefaultAutoFiles == 3

\* A zero is falsy
OrDefault(v) == IF v # 0 THEN v ELSE DefaultAutoFiles

\* config.get<number>('maxContextFiles') || 3
ConfiguredMax(cfg) == OrDefault(IF cfg.set THEN cfg.val ELSE SchemaDefault)

AutoCap == 2

AutoLimit == 2000

WholeCap == 20

WholeLimit == 1500

\* relevantFiles.forEach: a file whose path contains the current file's name
\* is left out
AutoBlocks(files, currentFileName) ==
    ConcatRange([i \in 1..Len(files) |->
                    IF currentFileName # <<>> /\ Includes(files[i].path, currentFileName)
                    THEN <<>>
                    ELSE NumberedBlock(files[i], i, AutoLimit)],
                1, Len(files))

AutoHead(ed) ==
    IF HasCurrentFile(ed)
    THEN <<Lit("Currently viewing file: "), PathPart(ed.rel), Lit("\nContent:\n"),
           Body(ed.text, ed.text.len), Lit("\n\n")>>
    ELSE <<>>

AutoFocus(ed) ==
    <<Lit("User is asking about the current file ("), PathPart(ed.rel),
      Lit("). Focus primarily on this file.")>>

BuildAutoContext(ws, ed, cfg, query) ==
    LET currentFileName == GetCurrentFileName(ed)
        relevantFiles   == GetRelevantFiles(ws, query, Min(ConfiguredMax(cfg), AutoCap))
    IN  IF HasCurrentFile(ed) /\ IsQueryAboutCurrentFile(query, currentFileName)
        THEN AutoHead(ed) \o AutoFocus(ed)
        ELSE AutoHead(ed)
             \o (IF Len(relevantFiles) > 0
                 THEN <<Lit("Additional relevant files:\n\n")>>
                      \o AutoBlocks(relevantFiles, currentFileName)
                 ELSE <<>>)

WholeBlocks(files) ==
    ConcatRange([i \in 1..Len(files) |-> NumberedBlock(files[i], i, WholeLimit)],
                1, Len(files))

\* The builder asking for the whole file list (50) in place of 20
BuildWholeUncapped(ws) ==
    LET allFiles == GetRelevantFiles(ws, <<>>, 50)
    IN  <<Lit("Entire codebase ("), Num(Len(allFiles)), Lit(" files):\n\n")>>
        \o WholeBlocks(allFiles)

BuildWholeCodebaseContext(ws) ==
    LET allFiles == GetRelevantFiles(ws, <<>>, WholeCap)
    IN  <<Lit("Entire codebase ("), Num(Len(allFiles)), Lit(" files):\n\n")>>
        \o WholeBlocks(allFiles)

\* The session state a context is built from
Session(ws, ed, cfg, mode, selected, files) ==
    [ws |-> ws, ed |-> ed, cfg |-> cfg, mode |-> mode,
     selectedFiles |-> selected, availableFiles |-> files]

\* The switch of buildContextFromSelection
BuildModeContext(s, query) ==
    CASE s.mode = "current"  -> BuildCurrentFileContext(s.ed)
      [] s.mode = "selected" -> BuildSelectedFilesContext(s.selectedFiles, s.availableFiles)
      [] s.mode = "auto"     -> BuildAutoContext(s.ws, s.ed, s.cfg, query)
      [] s.mode = "whole"    -> BuildWholeCodebaseContext(s.ws)
      [] OTHER               -> <<>>

\* Whether the switch throws into the catch of buildContextFromSelection:
\* document.getText() fails (fault) in a builder that reads the active editor
ModeThrows(s, fault) == fault /\ s.ed.open /\ s.mode \in {"current", "auto"}

\* The builder's result returned as it is, blank or not
OrNothing(context) == [ctx |-> context, raw |-> context, thrown |-> FALSE]

\* if (context.trim() === '') context = 'No specific code context found. ...'
OrGeneralNotice(context) ==
    [ctx    |-> IF IsBlank(context) THEN GeneralNotice ELSE context,
     raw    |-> context,
     thrown |-> FALSE]

\* buildContextFromSelection without its try / catch: the exception leaves it
BuildContextNoCatch(s, query, fault) ==
    IF ModeThrows(s, fault)
    THEN [ctx |-> <<>>, raw |-> <<>>, thrown |-> TRUE]
    ELSE OrGeneralNotice(BuildModeContext(s, query))

\* buildContextFromSelection with a catch block that returns the empty string
BuildContextCatchEmpty(s, query, fault) ==
    IF ModeThrows(s, fault)
    THEN [ctx |-> <<>>, raw |-> <<>>, thrown |-> FALSE]
    ELSE OrGeneralNotice(BuildModeContext(s, query))

\* buildContextFromSelection(query): the string it returns (ctx), the string
\* its switch built (raw) and whether an exception leaves it (thrown)
BuildContextFromSelection(s, query, fault) ==
    IF ModeThrows(s, fault)
    THEN [ctx |-> ErrorNotice, raw |-> <<>>, thrown |-> FALSE]
    ELSE OrGeneralNotice(BuildModeContext(s, query))


\* ------------------------------------------------------------------------
\* Inputs: texts, workspaces, editors, settings, queries
\* ------------------------------------------------------------------------

Foo == <<"f", "o", "o">>

TSmall == Text(<<"s", "m", "a", "l", "l">>, 50, 0, {Hit(Foo, 1)})

TLarge == Text(<<"l", "a", "r", "g", "e">>, 10000, 0, {Hit(Foo, 20)})

TAtCap == Text(<<"a", "t", "c", "a", "p">>, 50000, 0, {Hit(Foo, 9)})

TBelowCap == Text(<<"b", "e", "l", "o", "w", "c", "a", "p">>, 49999, 0, {Hit(Foo, 2)})

TOverWhole == Text(<<"o", "v", "e", "r", "w", "h", "o", "l", "e">>, 1501, 0, {})

TOverAuto == Text(<<"o", "v", "e", "r", "a", "u", "t", "o">>, 2001, 0, {Hit(Foo, 3)})

TEmpty == Text(<<"e", "m", "p", "t", "y">>, 0, 0, {})

TSpaces == Text(<<"s", "p", "a", "c", "e", "s">>, 3, 3, {})

TEdited == Text(<<"e", "d", "i", "t", "e", "d">>, 60, 0, {Hit(Foo, 2)})

\* A project: code files, an oversized file, ignored files and directories
ProjectFiles ==
    << File(<<>>, <<"a", ".", "t", "s">>, TSmall),
       File(<<>>, <<"b", ".", "t", "s">>, TLarge),
       File(<<>>, <<"b", "i", "g", ".", "j", "s", "o", "n">>, TAtCap),
       File(<<>>, <<"k", "e", "e", "p", ".", "m", "d">>, TOverWhole),
       File(<<>>, <<"l", "o", "g", "o", ".", "p", "n", "g">>, TSmall),
       Dir(<<>>, <<"n", "o", "d", "e", "_", "m", "o", "d", "u", "l", "e", "s">>),
       File(<<"n", "o", "d", "e", "_", "m", "o", "d", "u", "l", "e", "s">>, <<"m", ".", "j", "s">>, TSmall),
       File(<<>>, <<"n", "o", "t", "e", "s", ".", "m", "d">>, TOverAuto),
       File(<<>>, <<"p", "a", "c", "k", "a", "g", "e", "-", "l", "o", "c", "k", ".", "j", "s", "o", "n">>, TSmall),
       Dir(<<>>, <<"s", "e", "c", "r", "e", "t">>),
       File(<<"s", "e", "c", "r", "e", "t">>, <<"k", ".", "t", "s">>, TSmall),
       Dir(<<>>, <<"s", "r", "c">>),
       File(<<"s", "r", "c">>, <<"a", "p", "p", ".", "m", "i", "n", ".", "j", "s">>, TSmall),
       File(<<"s", "r", "c">>, <<"c", ".", "p", "y">>, TBelowCap),
       File(<<"s", "r", "c">>, <<"e", "m", "p", "t", "y", ".", "t", "x", "t">>, TEmpty) >>

\* The same project with one failing access: stat of b.ts, read of b.ts,
\* listing of src
FailStat(fsys, path) ==
    [i \in 1..Len(fsys) |->
        IF RelPath(fsys[i]) = path THEN [fsys[i] EXCEPT !.stat = FALSE] ELSE fsys[i]]

FailRead(fsys, path) ==
    [i \in 1..Len(fsys) |->
        IF RelPath(fsys[i]) = path THEN [fsys[i] EXCEPT !.read = FALSE] ELSE fsys[i]]

FailList(fsys, path) ==
    [i \in 1..Len(fsys) |->
        IF RelPath(fsys[i]) = path THEN [fsys[i] EXCEPT !.list = FALSE] ELSE fsys[i]]

\* Number of files of the generated workspace
BigCount == 51

Digits == <<"0", "1", "2", "3", "4", "5", "6", "7", "8", "9">>

GenName(i) == <<"g", Digits[(i \div 10) + 1], Digits[(i % 10) + 1], ".", "t", "s">>

\* gNN.ts holds 100 * NN characters
GenFiles == [i \in 1..BigCount |-> File(<<>>, GenName(i), Text(GenName(i), 100 * i, 0, {}))]

\* Two files alone: a.ts of 50 characters and b.ts of 10000
PairFiles ==
    << File(<<>>, <<"a", ".", "t", "s">>, TSmall),
       File(<<>>, <<"b", ".", "t", "s">>, TLarge) >>

TParser ==
    Text(<<"p", "a", "r", "s", "e", "r">>, 1200, 0, {Hit(<<"j", "s", "o", "n">>, 3)})

\* config/parser.ts, whose content holds "json" three times, next to a.ts
ExampleFiles ==
    << File(<<>>, <<"a", ".", "t", "s">>, TSmall),
       Dir(<<>>, <<"c", "o", "n", "f", "i", "g">>),
       File(<<"c", "o", "n", "f", "i", "g">>, <<"p", "a", "r", "s", "e", "r", ".", "t", "s">>, TParser) >>

Workspace(root, fsys, gitignore) ==
    [root |-> root, fs |-> fsys, rules |-> DefaultRules \o gitignore]

Workspaces ==
    { Workspace("ok", ProjectFiles, g) : g \in GitIgnores }
    \cup { Workspace("ok", FailStat(ProjectFiles, <<"b", ".", "t", "s">>), <<>>),
           Workspace("ok", FailRead(ProjectFiles, <<"b", ".", "t", "s">>), <<>>),
           Workspace("ok", FailList(ProjectFiles, <<"s", "r", "c">>), <<>>),
           Workspace("ok", GenFiles, <<>>),
           Workspace("ok", PairFiles, <<>>),
           Workspace("ok", <<>>, <<>>),
           Workspace("none", <<>>, <<>>),
           Workspace("gone", <<>>, <<>>) }

Editors ==
    { NoEditor,
      Editor(<<"a", ".", "t", "s">>, TSmall),
      Editor(<<"s", "c", "r", "a", "t", "c", "h", ".", "t", "s">>, TEmpty),
      Editor(<<"s", "r", "c", "/", "c", ".", "p", "y">>, TBelowCap) }

Settings == {Unset, Setting(-1), Setting(0), Setting(1), Setting(2), Setting(5)}

Modes == {"current", "selected", "auto", "whole"}

Selections ==
    { <<>>,
      << <<"a", ".", "t", "s">> >>,
      << <<"b", ".", "t", "s">>, <<"a", ".", "t", "s">> >>,
      << <<"g", "o", "n", "e", ".", "t", "s">>, <<"s", "r", "c", "/", "c", ".", "p", "y">> >>,
      << GenName(BigCount) >> }

Queries ==
    { <<"f", "o", "o">>,
      <<"e", "x", "p", "l", "a", "i", "n", " ", "t", "h", "i", "s", " ", "f", "u", "n", "c", "t", "i", "o", "n">>,
      <<"f", "i", "x", " ", "A", ".", "T", "S">>,
      <<"f", "o", "o", "(", " ", "b", "a", "r">>,
      <<"p", "y", "t", "h", "o", "n", " ", "f", "o", "o">> }


\* The inputs of the chat session
TinyFiles ==
    << File(<<>>, <<"a", ".", "t", "s">>, TSmall),
       File(<<>>, <<"b", ".", "t", "s">>, TLarge),
       File(<<>>, <<"b", "i", "g", ".", "j", "s", "o", "n">>, TAtCap),
       File(<<>>, <<"l", "o", "c", "k", "e", "d", ".", "t", "s">>, TSmall),
       Dir(<<>>, <<"n", "o", "d", "e", "_", "m", "o", "d", "u", "l", "e", "s">>),
       File(<<"n", "o", "d", "e", "_", "m", "o", "d", "u", "l", "e", "s">>, <<"m", ".", "j", "s">>, TSmall) >>

\* locked.ts cannot be read
SessionWorkspace == Workspace("ok", FailRead(TinyFiles, <<"l", "o", "c", "k", "e", "d", ".", "t", "s">>), <<>>)

SessionEditors == {NoEditor, Editor(<<"a", ".", "t", "s">>, TSmall)}

SessionQueries == { <<"f", "o", "o">>, <<" ">> }

\* Edits of the workspace made while the session runs
EditFile(fsys, path, text) ==
    [i \in 1..Len(fsys) |->
        IF RelPath(fsys[i]) = path THEN [fsys[i] EXCEPT !.text = text] ELSE fsys[i]]

\* String.prototype.trim
Trim(s) ==
    LET keep == {i \in 1..Len(s) : s[i] \notin WhiteSpace}
    IN  IF keep = {} THEN <<>>
        ELSE SubSeq(s, CHOOSE i \in keep : \A j \in keep : i <= j,
                       CHOOSE i \in keep : \A j \in keep : j <= i)

\* ------------------------------------------------------------------------
\* Bounds of the model
\* ------------------------------------------------------------------------

\* Chat messages the user sends in a session
MaxTurns == 2

\* Messages under way between the webview and the extension when the user
\* or the editor acts
MaxQueue == 1

\* Edits of workspace files during a session
MaxFsChanges == 1

\* Mode switches the user makes in a session
MaxSwitches == 1

\* File toggles the user makes in a session
MaxToggles == 1

\* ------------------------------------------------------------------------
\* State
\* ------------------------------------------------------------------------

VARIABLES
    ws,                \* the workspace folder, its files and the ignore rules
    editor,            \* vscode.window.activeTextEditor
    config,            \* the setting codebaseCopilot.maxContextFiles
    view,              \* ChatProvider._view is set
    contextSelection,  \* ChatProvider.contextSelection
    availableFiles,    \* ChatProvider.availableFiles
    chatHistory,       \* ChatProvider.chatHistory
    pending,           \* handleChatMessage calls awaiting geminiClient.chat
    toExt,             \* messages posted by the webview, not yet received
    toWv,              \* messages posted to the webview, not yet received
    wv,                \* the webview script's variables
    turns,             \* sendMessage messages posted so far
    open,              \* turns posted whose aiResponse or error is not delivered
    fsChanges,         \* edits of the workspace so far
    switches,          \* mode switches so far
    toggles,           \* file toggles so far
    last,              \* the latest call of buildContextFromSelection
    analyzerCall       \* the latest call of a CodebaseAnalyzer method made on its own

vars == <<ws, editor, config, view, contextSelection, availableFiles, chatHistory,
          pending, toExt, toWv, wv, turns, open, fsChanges, switches, toggles, last,
          analyzerCall>>

FileListSize == 50

\* refreshAvailableFiles(): getRelevantFiles('', 50)
RefreshedFiles(w) == GetRelevantFiles(w, <<>>, FileListSize)

ToWebview(type, turn, files) == [type |-> type, turn |-> turn, files |-> files]

ToExtension(type, message, mode, selected, turn) ==
    [type |-> type, message |-> message, mode |-> mode,
     selectedFiles |-> selected, turn |-> turn]

\* files: this.availableFiles.map(f => ({path: f.path, size: f.size}))
UpdateFileList(files) ==
    ToWebview("updateFileList", 0,
              [i \in 1..Len(files) |-> [path |-> files[i].path, size |-> files[i].size]])

ChatMessage(turn, text, isUser) == [turn |-> turn, text |-> text, isUser |-> isUser]

CurrentSession ==
    Session(ws, editor, config, contextSelection.mode,
            contextSelection.selectedFiles, availableFiles)

\* The record of one call of buildContextFromSelection: its number, the mode
\* and the editor it saw, its query and getText outcome, its result, and
\* whether handleChatMessage went on to call geminiClient.chat
Build(n, s, query, fault, out) ==
    [n |-> n, mode |-> s.mode, ed |-> s.ed, query |-> query, fault |-> fault,
     out |-> out, called |-> ~out.thrown]

NoBuild ==
    [n |-> 0, mode |-> "auto", ed |-> NoEditor, query |-> <<>>, fault |-> FALSE,
     out |-> [ctx |-> <<>>, raw |-> <<>>, thrown |-> FALSE], called |-> FALSE]

\* The record of one call of a CodebaseAnalyzer method: the method, its
\* arguments (file and query of calculateRelevanceScore, query and maxFiles of
\* getRelevantFiles), whether it threw, the number or the files it returned,
\* the count of workspace edits at the time of the call, and the fs calls a
\* getAllCodeFiles pass made
AnalyzerCall(op, file, query, maxFiles, threw, value, files, gen) ==
    [op |-> op, file |-> file, query |-> query, maxFiles |-> maxFiles,
     threw |-> threw, value |-> value, files |-> files, gen |-> gen,
     accesses |-> {}]

NoCall == AnalyzerCall("none", CodeFile(<<>>, NoText), <<>>, 0, FALSE, 0, <<>>, 0)

\* The state after the ChatProvider is constructed (its first
\* refreshAvailableFiles done) and before the view is resolved
InitSession(w, ed, cfg) ==
    /\ ws = w
    /\ editor = ed
    /\ config = cfg
    /\ view = FALSE
    /\ contextSelection = [mode |-> "auto", selectedFiles |-> <<>>]
    /\ availableFiles = RefreshedFiles(w)
    /\ chatHistory = <<>>
    /\ pending = {}
    /\ toExt = <<>>
    /\ toWv = <<>>
    /\ wv = [isWaitingForResponse |-> FALSE, selectorShown |-> FALSE,
             selectedFiles |-> <<>>, availableFiles |-> <<>>]
    /\ turns = 0
    /\ open = {}
    /\ fsChanges = 0
    /\ switches = 0
    /\ toggles = 0
    /\ last = NoBuild
    /\ analyzerCall = NoCall

Init ==
    \E ed \in SessionEditors : InitSession(SessionWorkspace, ed, Setting(5))


\* ------------------------------------------------------------------------
\* The extension host (ChatProvider)
\* ------------------------------------------------------------------------

\* Messages the webview only renders (welcomeMessage, updateContextInfo,
\* userMessage, thinking, connectionTest) change none of the variables above
\* and are not queued.

\* The outcomes of document.getText(): it can fail only where it is called
Faults(s) == IF s.ed.open /\ s.mode \in {"current", "auto"} THEN BOOLEAN ELSE {FALSE}

\* refreshAvailableFiles()
RefreshAvailableFiles ==
    /\ availableFiles' = RefreshedFiles(ws)
    /\ toWv' = IF view THEN Append(toWv, UpdateFileList(RefreshedFiles(ws))) ELSE toWv

\* resolveWebviewView: the view is set, the page is loaded (its script posts
\* requestFileList), the welcome message and the file list are sent
ResolveWebviewView ==
    /\ ~view
    /\ view' = TRUE
    /\ toExt' = Append(toExt, ToExtension("requestFileList", <<>>, "", <<>>, 0))
    /\ availableFiles' = RefreshedFiles(ws)
    /\ toWv' = Append(toWv, UpdateFileList(RefreshedFiles(ws)))
    /\ UNCHANGED <<ws, editor, config, contextSelection, chatHistory, pending, wv,
                   turns, open, fsChanges, switches, toggles, last, analyzerCall>>

Received(type) == toExt # <<>> /\ Head(toExt).type = type

\* The text of the user's message inside a prompt
Chars(s) == [k |-> "chars", s |-> "", p |-> s, t |-> NoText, n |-> 0]

\* The line of three backquotes that opens and closes the code context
Fence == [k |-> "fence", s |-> "", p |-> <<>>, t |-> NoText, n |-> 0]

\* GeminiClient.isCodeGenerationRequest: codeKeywords
codeKeywords ==
    { <<"g", "e", "n", "e", "r", "a", "t", "e">>,
      <<"c", "r", "e", "a", "t", "e">>,
      <<"w", "r", "i", "t", "e">>,
      <<"a", "d", "d">>,
      <<"m", "o", "d", "i", "f", "y">>,
      <<"u", "p", "d", "a", "t", "e">>,
      <<"c", "h", "a", "n", "g", "e">>,
      <<"i", "m", "p", "l", "e", "m", "e", "n", "t">>,
      <<"b", "u", "i", "l", "d">>,
      <<"m", "a", "k", "e">>,
      <<"s", "h", "o", "w", " ", "m", "e", " ", "c", "o", "d", "e">>,
      <<"g", "i", "v", "e", " ", "m", "e", " ", "c", "o", "d", "e">>,
      <<"h", "o", "w", " ", "t", "o", " ", "a", "d", "d">>,
      <<"h", "o", "w", " ", "t", "o", " ", "i", "m", "p", "l", "e", "m", "e", "n", "t">>,
      <<"c", "o", "d", "e", " ", "f", "o", "r">>,
      <<"f", "u", "n", "c", "t", "i", "o", "n", " ", "f", "o", "r">>,
      <<"s", "c", "r", "i", "p", "t", " ", "f", "o", "r">>,
      <<"e", "x", "a", "m", "p", "l", "e", " ", "o", "f">>,
      <<"s", "a", "m", "p", "l", "e", " ", "c", "o", "d", "e">> }

IsCodeGenerationRequest(message) ==
    \E keyword \in codeKeywords : Includes(ToLower(message), keyword)

\* GeminiClient.buildSimplePrompt(message, codeContext): the 'Code Context:'
\* prompt when codeContext is not blank, else the prompt with no context
BuildSimplePrompt(message, codeContext) ==
    IF ~IsBlank(codeContext)
    THEN <<Lit("You are a helpful coding assistant. ")>>
         \o (IF IsCodeGenerationRequest(message)
             THEN <<Lit("When asked to generate, modify, or add code, provide complete, working code examples. ")>>
             ELSE <<>>)
         \o <<Lit("Analyze the code and answer the question.\n\nCode Context:\n"), Fence, Lit("\n")>>
         \o codeContext
         \o <<Lit("\n"), Fence, Lit("\n\nQuestion: "), Chars(message)>>
         \o (IF IsCodeGenerationRequest(message)
             THEN <<Lit("\n\nPlease provide complete, working code that implements the requested changes. Include the full modified file or function, not just snippets.")>>
             ELSE <<>>)
    ELSE <<Lit("You are a helpful coding assistant. ")>>
         \o (IF IsCodeGenerationRequest(message)
             THEN <<Lit("Provide complete, working code examples when requested. ")>>
             ELSE <<>>)
         \o <<Lit("Answer this question: "), Chars(message)>>

\* geminiClient.chat(message, context) under way, with the prompt it built
ModelCall(turn, message, context) ==
    [turn |-> turn, message |-> message, context |-> context,
     prompt |-> BuildSimplePrompt(message, context)]

\* handleChatMessage(message) up to its await of geminiClient.chat, with the
\* context out that buildContextFromSelection returned
HandleChatMessage(m, s, fault, out) ==
    /\ chatHistory' = Append(chatHistory, ChatMessage(m.turn, m.message, TRUE))
    /\ pending' = IF out.thrown THEN pending
                  ELSE pending \cup {ModelCall(m.turn, m.message, out.ctx)}
    /\ toWv' = IF out.thrown THEN Append(toWv, ToWebview("error", m.turn, <<>>))
               ELSE toWv
    /\ last' = Build(last.n + 1, s, m.message, fault, out)

\* case 'sendMessage'
ExtSendMessage ==
    /\ Received("sendMessage")
    /\ \E fault \in Faults(CurrentSession) :
         HandleChatMessage(Head(toExt), CurrentSession, fault,
             BuildContextFromSelection(CurrentSession, Head(toExt).message, fault))
    /\ toExt' = Tail(toExt)
    /\ UNCHANGED <<ws, editor, config, view, contextSelection, availableFiles, wv,
                   turns, open, fsChanges, switches, toggles, analyzerCall>>

Reply == <<"o", "k">>

\* geminiClient.chat returns: the rest of the try block of handleChatMessage
ModelReply ==
    \E call \in pending :
        /\ pending' = pending \ {call}
        /\ chatHistory' = Append(chatHistory, ChatMessage(call.turn, Reply, FALSE))
        /\ toWv' = Append(toWv, ToWebview("aiResponse", call.turn, <<>>))
        /\ UNCHANGED <<ws, editor, config, view, contextSelection, availableFiles,
                       toExt, wv, turns, open, fsChanges, switches, toggles, last, analyzerCall>>

\* The catch block posting nothing
ModelFailSilent ==
    \E call \in pending :
        /\ pending' = pending \ {call}
        /\ UNCHANGED <<ws, editor, config, view, contextSelection, availableFiles,
                       chatHistory, toExt, toWv, wv, turns, open, fsChanges, switches, toggles, last, analyzerCall>>

\* The catch block recording the error text as an AI message
ModelFailWithReply ==
    \E call \in pending :
        /\ pending' = pending \ {call}
        /\ chatHistory' = Append(chatHistory, ChatMessage(call.turn, Reply, FALSE))
        /\ toWv' = Append(toWv, ToWebview("error", call.turn, <<>>))
        /\ UNCHANGED <<ws, editor, config, view, contextSelection, availableFiles,
                       toExt, wv, turns, open, fsChanges, switches, toggles, last, analyzerCall>>

\* geminiClient.chat throws: the catch block of handleChatMessage
ModelFail ==
    \E call \in pending :
        /\ pending' = pending \ {call}
        /\ toWv' = Append(toWv, ToWebview("error", call.turn, <<>>))
        /\ UNCHANGED <<ws, editor, config, view, contextSelection, availableFiles,
                       chatHistory, toExt, wv, turns, open, fsChanges, switches, toggles, last, analyzerCall>>

\* clearChat() putting the context selection back to its initial value
ExtClearChatResetsSelection ==
    /\ Received("clearChat")
    /\ toExt' = Tail(toExt)
    /\ chatHistory' = <<>>
    /\ contextSelection' = [mode |-> "auto", selectedFiles |-> <<>>]
    /\ toWv' = Append(toWv, ToWebview("clearChat", 0, <<>>))
    /\ UNCHANGED <<ws, editor, config, view, availableFiles,
                   pending, wv, turns, open, fsChanges, switches, toggles, last, analyzerCall>>

\* case 'clearChat': clearChat()
ExtClearChat ==
    /\ Received("clearChat")
    /\ toExt' = Tail(toExt)
    /\ chatHistory' = <<>>
    /\ toWv' = Append(toWv, ToWebview("clearChat", 0, <<>>))
    /\ UNCHANGED <<ws, editor, config, view, contextSelection, availableFiles,
                   pending, wv, turns, open, fsChanges, switches, toggles, last, analyzerCall>>

\* case 'testConnection': testConnection() posts rendered messages only
ExtTestConnection ==
    /\ Received("testConnection")
    /\ toExt' = Tail(toExt)
    /\ UNCHANGED <<ws, editor, config, view, contextSelection, availableFiles,
                   chatHistory, pending, toWv, wv, turns, open, fsChanges, switches, toggles, last, analyzerCall>>

\* case 'refreshContext' and case 'requestFileList'
ExtRefresh ==
    /\ Received("refreshContext") \/ Received("requestFileList")
    /\ toExt' = Tail(toExt)
    /\ RefreshAvailableFiles
    /\ UNCHANGED <<ws, editor, config, view, contextSelection, chatHistory, pending,
                   wv, turns, open, fsChanges, switches, toggles, last, analyzerCall>>

\* case 'updateContextMode'
ExtUpdateContextMode ==
    /\ Received("updateContextMode")
    /\ toExt' = Tail(toExt)
    /\ contextSelection' = [contextSelection EXCEPT !.mode = Head(toExt).mode]
    /\ UNCHANGED <<ws, editor, config, view, availableFiles, chatHistory, pending,
                   toWv, wv, turns, open, fsChanges, switches, toggles, last, analyzerCall>>

\* case 'updateSelectedFiles'
ExtUpdateSelectedFiles ==
    /\ Received("updateSelectedFiles")
    /\ toExt' = Tail(toExt)
    /\ contextSelection' =
          [contextSelection EXCEPT !.selectedFiles = Head(toExt).selectedFiles]
    /\ UNCHANGED <<ws, editor, config, view, availableFiles, chatHistory, pending,
                   toWv, wv, turns, open, fsChanges, switches, toggles, last, analyzerCall>>

\* vscode.window.onDidChangeActiveTextEditor
ChangeActiveEditor ==
    \E ed \in SessionEditors \ {editor} :
        /\ Len(toExt) + Len(toWv) < MaxQueue
        /\ editor' = ed
        /\ RefreshAvailableFiles
        /\ UNCHANGED <<ws, config, view, contextSelection, chatHistory, pending,
                       toExt, wv, turns, open, fsChanges, switches, toggles, last, analyzerCall>>

\* The workspace changes while the session runs: a.ts is saved with another
\* content, or b.ts becomes unreadable
FsChange ==
    /\ fsChanges < MaxFsChanges
    /\ ws.root = "ok"
    /\ \E i \in 1..Len(ws.fs) : RelPath(ws.fs[i]) = <<"a", ".", "t", "s">>
    /\ ws' \in { [ws EXCEPT !.fs = EditFile(ws.fs, <<"a", ".", "t", "s">>, TEdited)],
                 [ws EXCEPT !.fs = FailRead(ws.fs, <<"b", ".", "t", "s">>)] }
    /\ fsChanges' = fsChanges + 1
    /\ UNCHANGED <<editor, config, view, contextSelection, availableFiles,
                   chatHistory, pending, toExt, toWv, wv, turns, open, switches, toggles, last, analyzerCall>>

\* ------------------------------------------------------------------------
\* The webview script
\* ------------------------------------------------------------------------

Post(msgs) == toExt' = toExt \o msgs

\* The user acts while fewer than MaxQueue messages are under way
CanPost == view /\ Len(toExt) + Len(toWv) < MaxQueue

\* sendMessage() with q typed in the input box
SendMessage(q) ==
    /\ CanPost
    /\ turns < MaxTurns
    /\ Trim(q) # <<>>
    /\ ~wv.isWaitingForResponse
    /\ wv' = [wv EXCEPT !.isWaitingForResponse = TRUE]
    /\ Post(<<ToExtension("sendMessage", Trim(q), "", <<>>, turns + 1)>>)
    /\ turns' = turns + 1
    /\ open' = open \cup {turns + 1}
    /\ UNCHANGED <<ws, editor, config, view, contextSelection, availableFiles,
                   chatHistory, pending, toWv, fsChanges, switches, toggles, last, analyzerCall>>

WvSendMessage == \E q \in SessionQueries : SendMessage(q)

\* clearChat(), testConnection(), refreshContext()
WvHeaderButton ==
    \E type \in {"clearChat", "testConnection", "refreshContext"} :
        /\ CanPost
        /\ Post(<<ToExtension(type, <<>>, "", <<>>, 0)>>)
        /\ UNCHANGED <<ws, editor, config, view, contextSelection, availableFiles,
                       chatHistory, pending, toWv, wv, turns, open, fsChanges, switches, toggles, last, analyzerCall>>

\* setContextMode(mode): the file selector is shown in selected mode only
\* (the script's currentMode is written and never read)
WvSetContextMode ==
    \E mode \in Modes :
        /\ CanPost
        /\ switches < MaxSwitches
        /\ switches' = switches + 1
        /\ wv' = [wv EXCEPT !.selectorShown = (mode = "selected")]
        /\ Post((IF mode = "selected"
                 THEN <<ToExtension("requestFileList", <<>>, "", <<>>, 0)>>
                 ELSE <<>>)
                \o <<ToExtension("updateContextMode", <<>>, mode, <<>>, 0)>>)
        /\ UNCHANGED <<ws, editor, config, view, contextSelection, availableFiles,
                       chatHistory, pending, toWv, turns, open, fsChanges, toggles, last, analyzerCall>>

\* toggleFileSelection(filePath) of a file of the displayed list
WvToggleFileSelection ==
    \E i \in 1..Len(wv.availableFiles) :
        LET filePath == wv.availableFiles[i].path
            selected == IF \E j \in 1..Len(wv.selectedFiles) : wv.selectedFiles[j] = filePath
                        THEN SelectSeq(wv.selectedFiles, LAMBDA f : f # filePath)
                        ELSE Append(wv.selectedFiles, filePath)
        IN  /\ CanPost
            /\ wv.selectorShown
            /\ toggles < MaxToggles
            /\ toggles' = toggles + 1
            /\ wv' = [wv EXCEPT !.selectedFiles = selected]
            /\ Post(<<ToExtension("updateSelectedFiles", <<>>, "", selected, 0)>>)
            /\ UNCHANGED <<ws, editor, config, view, contextSelection, availableFiles,
                           chatHistory, pending, toWv, turns, open, fsChanges, switches, last, analyzerCall>>

Delivered(type) == toWv # <<>> /\ Head(toWv).type = type

\* case 'aiResponse' and case 'error': resetSendButton()
WvOnAnswer ==
    /\ Delivered("aiResponse") \/ Delivered("error")
    /\ toWv' = Tail(toWv)
    /\ wv' = [wv EXCEPT !.isWaitingForResponse = FALSE]
    /\ open' = open \ {Head(toWv).turn}
    /\ UNCHANGED <<ws, editor, config, view, contextSelection, availableFiles,
                   chatHistory, pending, toExt, turns, fsChanges, switches, toggles, last, analyzerCall>>

\* case 'clearChat': resetSendButton()
WvOnClearChat ==
    /\ Delivered("clearChat")
    /\ toWv' = Tail(toWv)
    /\ wv' = [wv EXCEPT !.isWaitingForResponse = FALSE]
    /\ UNCHANGED <<ws, editor, config, view, contextSelection, availableFiles,
                   chatHistory, pending, toExt, turns, open, fsChanges, switches, toggles, last, analyzerCall>>

\* case 'updateFileList': updateFileList(message.files)
WvOnUpdateFileList ==
    /\ Delivered("updateFileList")
    /\ toWv' = Tail(toWv)
    /\ wv' = [wv EXCEPT !.availableFiles = Head(toWv).files]
    /\ UNCHANGED <<ws, editor, config, view, contextSelection, availableFiles,
                   chatHistory, pending, toExt, turns, open, fsChanges, switches, toggles, last, analyzerCall>>

Next ==
    \/ ResolveWebviewView
    \/ ExtSendMessage
    \/ ModelReply
    \/ ModelFail
    \/ ExtClearChat
    \/ ExtTestConnection
    \/ ExtRefresh
    \/ ExtUpdateContextMode
    \/ ExtUpdateSelectedFiles
    \/ ChangeActiveEditor
    \/ WvSendMessage
    \/ WvHeaderButton
    \/ WvSetContextMode
    \/ WvToggleFileSelection
    \/ WvOnAnswer
    \/ WvOnClearChat
    \/ WvOnUpdateFileList

Spec == Init /\ [][Next]_vars

\* case 'sendMessage' .. case 'requestFileList' of onDidReceiveMessage
ExtHandle ==
    \/ ExtSendMessage
    \/ ExtClearChat
    \/ ExtTestConnection
    \/ ExtRefresh
    \/ ExtUpdateContextMode
    \/ ExtUpdateSelectedFiles

\* The extension host runs the handler of every message it receives: this is
\* WF_vars(ExtHandle) with ENABLED <<ExtHandle>>_vars written out, a handler
\* being able to run exactly when a message is queued
ExtHandles ==
    \/ []<>(toExt = <<>>)
    \/ []<><<ExtHandle>>_vars

\* The webview script runs the handler of every message delivered to it
WvHandle ==
    \/ WvOnAnswer
    \/ WvOnClearChat
    \/ WvOnUpdateFileList

\* await geminiClient.chat(...) settles: the promise resolves or rejects
ModelReturns == ModelReply \/ ModelFail

\* Both event loops keep running and every model call settles
Fairness ==
    /\ ExtHandles
    /\ WF_vars(WvHandle)
    /\ WF_vars(ModelReturns)



\* ------------------------------------------------------------------------
\* Context assembly over all inputs
\* ------------------------------------------------------------------------

\* A session with the view resolved and nothing under way, in any mode; the
\* setting matters in auto mode and the selection in selected mode
InitAsm ==
    \E w \in Workspaces, ed \in Editors, mode \in Modes :
        \E cfg \in (IF mode = "auto" THEN Settings ELSE {Setting(5)}),
           sel \in (IF mode = "selected" THEN Selections ELSE {<<>>}) :
            /\ ws = w
            /\ editor = ed
            /\ config = cfg
            /\ view = TRUE
            /\ contextSelection = [mode |-> mode, selectedFiles |-> sel]
            /\ availableFiles = RefreshedFiles(w)
            /\ chatHistory = <<>>
            /\ pending = {}
            /\ toExt = <<>>
            /\ toWv = <<>>
            /\ wv = [isWaitingForResponse |-> FALSE, selectorShown |-> (mode = "selected"),
                     selectedFiles |-> sel,
                     availableFiles |-> UpdateFileList(RefreshedFiles(w)).files]
            /\ turns = 0
            /\ open = {}
            /\ fsChanges = 0
            /\ switches = 0
            /\ toggles = 0
            /\ last = NoBuild
            /\ analyzerCall = NoCall

\* buildContextFromSelection(query) applied to the session
Assemble ==
    \E q \in Queries, fault \in Faults(CurrentSession) :
        /\ last = NoBuild
        /\ last' = Build(1, CurrentSession, q, fault,
                         BuildContextFromSelection(CurrentSession, q, fault))
        /\ UNCHANGED <<ws, editor, config, view, contextSelection, availableFiles,
                       chatHistory, pending, toExt, toWv, wv, turns, open,
                       fsChanges, switches, toggles, analyzerCall>>

\* refreshAvailableFiles() with its updateFileList delivered
Rediscover ==
    /\ availableFiles' = RefreshedFiles(ws)
    /\ wv' = [wv EXCEPT !.availableFiles = UpdateFileList(RefreshedFiles(ws)).files]
    /\ UNCHANGED <<ws, editor, config, view, contextSelection, chatHistory, pending,
                   toExt, toWv, turns, open, fsChanges, switches, toggles, last, analyzerCall>>

NextAsm == Assemble

SpecAsm == InitAsm /\ [][NextAsm]_vars

\* The same sessions with the workspace edited behind the file list
NextFs ==
    \/ Assemble
    \/ Rediscover
    \/ FsChange

SpecFs == InitAsm /\ [][NextFs]_vars


\* ------------------------------------------------------------------------
\* Chat turns alone: a resolved view in each mode, the user only sends
\* ------------------------------------------------------------------------

TurnQueries ==
    SessionQueries
    \cup { <<"f", "o", "o", "(", " ", "b", "a", "r">>, <<"a", "d", "d", " ", "f", "o", "o">> }

TurnSelection(mode) == IF mode = "selected" THEN << <<"a", ".", "t", "s">> >> ELSE <<>>

InitTurn ==
    \E ed \in SessionEditors, mode \in Modes :
        /\ ws = SessionWorkspace
        /\ editor = ed
        /\ config = Setting(5)
        /\ view = TRUE
        /\ contextSelection = [mode |-> mode, selectedFiles |-> TurnSelection(mode)]
        /\ availableFiles = RefreshedFiles(SessionWorkspace)
        /\ chatHistory = <<>>
        /\ pending = {}
        /\ toExt = <<>>
        /\ toWv = <<>>
        /\ wv = [isWaitingForResponse |-> FALSE, selectorShown |-> (mode = "selected"),
                 selectedFiles |-> TurnSelection(mode),
                 availableFiles |-> UpdateFileList(RefreshedFiles(SessionWorkspace)).files]
        /\ turns = 0
        /\ open = {}
        /\ fsChanges = 0
        /\ switches = 0
        /\ toggles = 0
        /\ last = NoBuild
        /\ analyzerCall = NoCall

WvSendQuery == \E q \in TurnQueries : SendMessage(q)

NextTurn ==
    \/ WvSendQuery
    \/ ExtSendMessage
    \/ ModelReply
    \/ ModelFail
    \/ WvOnAnswer

SpecTurn == InitTurn /\ [][NextTurn]_vars

\* Chat turns with the header buttons: the user sends, clears the chat, tests
\* the connection and refreshes, also while a turn is under way
NextChat ==
    \/ WvSendQuery
    \/ WvHeaderButton
    \/ ExtSendMessage
    \/ ExtClearChat
    \/ ExtTestConnection
    \/ ExtRefresh
    \/ ModelReply
    \/ ModelFail
    \/ WvOnAnswer
    \/ WvOnClearChat
    \/ WvOnUpdateFileList

\* Every queued message is handled and every model call settles
SpecChat == InitTurn /\ [][NextChat]_vars /\ Fairness


\* ------------------------------------------------------------------------
\* The CodebaseAnalyzer's methods applied on their own
\* ------------------------------------------------------------------------

\* Consecutive getAllCodeFiles passes over an unchanged workspace
MaxPasses == 2

\* a.ts next to node_modules/pkg/i.js and .envs/e.ts: the matcher answers
\* true for the directories node_modules/pkg ('node_modules/**') and .envs
\* ('.env*'), and false for node_modules itself
NestedFiles ==
    << File(<<>>, <<"a", ".", "t", "s">>, TSmall),
       Dir(<<>>, <<".", "e", "n", "v", "s">>),
       File(<<".", "e", "n", "v", "s">>, <<"e", ".", "t", "s">>, TSmall),
       Dir(<<>>, <<"n", "o", "d", "e", "_", "m", "o", "d", "u", "l", "e", "s">>),
       Dir(<<"n", "o", "d", "e", "_", "m", "o", "d", "u", "l", "e", "s">>, <<"p", "k", "g">>),
       File(<<"n", "o", "d", "e", "_", "m", "o", "d", "u", "l", "e", "s", "/", "p", "k", "g">>,
            <<"i", ".", "j", "s">>, TSmall) >>

AnalyzerWorkspaces ==
    Workspaces \cup {Workspace("ok", ExampleFiles, <<>>), Workspace("ok", NestedFiles, <<>>)}

AnalyzerQueries ==
    Queries
    \cup { <<>>,
           <<"p", "a", "r", "s", "e", " ", "j", "s", "o", "n", " ", "c", "o", "n", "f", "i", "g">>,
           <<" ", "F", "O", "O", " ", " ", "t", "s", "x", " ", "a", "b">> }

\* The values of maxFiles the ChatProvider calls getRelevantFiles with
RankSizes ==
    {FileListSize, WholeCap} \cup {Min(ConfiguredMax(cfg), AutoCap) : cfg \in Settings}

InitAnalyzer ==
    \E w \in AnalyzerWorkspaces :
        /\ ws = w
        /\ editor = NoEditor
        /\ config = Setting(5)
        /\ view = FALSE
        /\ contextSelection = [mode |-> "auto", selectedFiles |-> <<>>]
        /\ availableFiles = RefreshedFiles(w)
        /\ chatHistory = <<>>
        /\ pending = {}
        /\ toExt = <<>>
        /\ toWv = <<>>
        /\ wv = [isWaitingForResponse |-> FALSE, selectorShown |-> FALSE,
                 selectedFiles |-> <<>>, availableFiles |-> <<>>]
        /\ turns = 0
        /\ open = {}
        /\ fsChanges = 0
        /\ switches = 0
        /\ toggles = 0
        /\ last = NoBuild
        /\ analyzerCall = NoCall

\* calculateRelevanceScore(file, query): new RegExp throws for some words
ScoreCall(file, query, gen) ==
    AnalyzerCall("calculateRelevanceScore", file, query, 0, ScoreThrows(query),
                 IF ScoreThrows(query) THEN 0 ELSE CalculateRelevanceScore(file, query),
                 <<>>, gen)

\* calculateRelevanceScore applied to a discovered file and a query
ScoreFile ==
    /\ analyzerCall = NoCall
    /\ \E i \in 1..Len(GetAllCodeFiles(ws)), q \in AnalyzerQueries :
          analyzerCall' = ScoreCall(GetAllCodeFiles(ws)[i], q, fsChanges)
    /\ UNCHANGED <<ws, editor, config, view, contextSelection, availableFiles,
                   chatHistory, pending, toExt, toWv, wv, turns, open,
                   fsChanges, switches, toggles, last>>

\* getRelevantFiles(query, maxFiles)
RankFiles ==
    /\ analyzerCall = NoCall
    /\ \E q \in AnalyzerQueries, n \in RankSizes :
          analyzerCall' = AnalyzerCall("getRelevantFiles", CodeFile(<<>>, NoText), q, n,
                                       FALSE, 0, GetRelevantFiles(ws, q, n), fsChanges)
    /\ UNCHANGED <<ws, editor, config, view, contextSelection, availableFiles,
                   chatHistory, pending, toExt, toWv, wv, turns, open,
                   fsChanges, switches, toggles, last>>

\* The previous call was a getAllCodeFiles pass and the workspace has not
\* changed since
Repeated == analyzerCall.op = "getAllCodeFiles" /\ analyzerCall.gen = fsChanges

\* The pass keeping the files of the pass before it
DiscoverAccumulating ==
    /\ analyzerCall.op \in {"none", "getAllCodeFiles"}
    /\ Repeated => analyzerCall.value < MaxPasses
    /\ analyzerCall' =
          AnalyzerCall("getAllCodeFiles", CodeFile(<<>>, NoText), <<>>, 0, FALSE,
                       IF Repeated THEN analyzerCall.value + 1 ELSE 1,
                       (IF Repeated THEN analyzerCall.files ELSE <<>>) \o GetAllCodeFiles(ws),
                       fsChanges)
    /\ UNCHANGED <<ws, editor, config, view, contextSelection, availableFiles,
                   chatHistory, pending, toExt, toWv, wv, turns, open,
                   fsChanges, switches, toggles, last>>

\* The pass letting the failure to list a missing root out
DiscoverUnguarded ==
    /\ analyzerCall.op \in {"none", "getAllCodeFiles"}
    /\ Repeated => analyzerCall.value < MaxPasses
    /\ analyzerCall' =
          AnalyzerCall("getAllCodeFiles", CodeFile(<<>>, NoText), <<>>, 0, ws.root # "ok",
                       IF Repeated THEN analyzerCall.value + 1 ELSE 1,
                       GetAllCodeFiles(ws), fsChanges)
    /\ UNCHANGED <<ws, editor, config, view, contextSelection, availableFiles,
                   chatHistory, pending, toExt, toWv, wv, turns, open,
                   fsChanges, switches, toggles, last>>

\* getAllCodeFiles(): a pass of discovery; value counts the passes made in a
\* row over the unchanged workspace.  Every file system call of the pass is
\* inside a try, so that nothing is thrown.
Discover ==
    /\ analyzerCall.op \in {"none", "getAllCodeFiles"}
    /\ Repeated => analyzerCall.value < MaxPasses
    /\ analyzerCall' =
          [AnalyzerCall("getAllCodeFiles", CodeFile(<<>>, NoText), <<>>, 0, FALSE,
                        IF Repeated THEN analyzerCall.value + 1 ELSE 1,
                        GetAllCodeFiles(ws), fsChanges)
              EXCEPT !.accesses = GetAllAccesses(ws)]
    /\ UNCHANGED <<ws, editor, config, view, contextSelection, availableFiles,
                   chatHistory, pending, toExt, toWv, wv, turns, open,
                   fsChanges, switches, toggles, last>>

NextAnalyzer ==
    \/ ScoreFile
    \/ RankFiles
    \/ Discover
    \/ FsChange

SpecAnalyzer == InitAnalyzer /\ [][NextAnalyzer]_vars


\* ------------------------------------------------------------------------
\* Properties
\* ------------------------------------------------------------------------

\* The numbered file blocks of a context start at "--- File "; the block's
\* path is three parts on, its content five parts on, and the truncation
\* marker, when there is one, follows the content
BlockStarts(ctx) == {i \in 1..Len(ctx) : ctx[i] = Lit("--- File ")}

BlockPath(ctx, i) == ctx[i + 3].p

BlockBody(ctx, i) == ctx[i + 5]

BlockMarked(ctx, i) == ctx[i + 6] = TruncatedMarker

\* The workspace file of a relative path holds this text
HoldsText(fsys, path, text) ==
    \E j \in 1..Len(fsys) :
        fsys[j].kind = "file" /\ RelPath(fsys[j]) = path /\ fsys[j].text = text

\* A code file of the workspace that the ignore matcher answers true for
IgnoredCodeFiles(w) ==
    {j \in 1..Len(w.fs) :
        /\ w.fs[j].kind = "file"
        /\ ToLower(ExtName(w.fs[j].name)) \in codeExtensions
        /\ Ignores(w.rules, RelPath(w.fs[j]))}

\* C1 (SpecAsm): no file a discovery pass returns (the file list, the blocks of
\* an auto or whole context) has a path the ignore matcher answers true for,
\* be the file ignored itself or below an ignored directory
C1_NoIgnoredFileDiscovered ==
    /\ \A i \in 1..Len(availableFiles) : ~Ignores(ws.rules, availableFiles[i].path)
    /\ \A i \in BlockStarts(last.out.ctx) :
          ~Ignores(ws.rules, BlockPath(last.out.ctx, i))

\* A whole context built over a workspace that holds ignored code files
C1_Witness ==
    /\ last.mode = "whole"
    /\ BlockStarts(last.out.ctx) # {}
    /\ Len(availableFiles) > 0
    /\ IgnoredCodeFiles(ws) # {}
    /\ \E j \in IgnoredCodeFiles(ws) : ws.fs[j].dir # <<>>

\* C2 (SpecAsm): every discovered file has size = length(content) < 50000 and
\* carries the whole text of its workspace file; a file of 50000 characters
\* or more is left out
C2_SizeIsLengthBelowCap ==
    \A i \in 1..Len(availableFiles) :
        /\ availableFiles[i].size = availableFiles[i].content.len
        /\ availableFiles[i].size < 50000
        /\ HoldsText(ws.fs, availableFiles[i].path, availableFiles[i].content)

\* A file of 49999 characters is discovered next to one of 50000 that is not
C2_Witness ==
    /\ \E i \in 1..Len(availableFiles) : availableFiles[i].size = 49999
    /\ \E j \in 1..Len(ws.fs) :
          /\ ws.fs[j].text.len = 50000
          /\ ~Ignores(ws.rules, RelPath(ws.fs[j]))
          /\ \A i \in 1..Len(availableFiles) : availableFiles[i].path # RelPath(ws.fs[j])

\* C3 (SpecAsm): in every mode the string buildContextFromSelection returns is
\* not blank, and it is the general-assistance notice whenever the mode's
\* builder returned a blank string
C3_ContextNeverBlank ==
    last.n > 0 =>
        /\ ~IsBlank(last.out.ctx)
        /\ (~last.fault /\ IsBlank(last.out.raw)) => last.out.ctx = GeneralNotice

\* The auto builder returned the empty string and the notice took its place
C3_Witness ==
    /\ last.n > 0
    /\ ~last.fault
    /\ IsBlank(last.out.raw)
    /\ last.out.ctx = GeneralNotice

\* The workspace with every file system access succeeding
Healed(w) ==
    [w EXCEPT !.fs = [i \in 1..Len(w.fs) |->
                         [w.fs[i] EXCEPT !.stat = TRUE, !.read = TRUE, !.list = TRUE]]]

\* The build got as far as the discovery pass
DiscoveryRuns(b) ==
    /\ ~b.fault
    /\ \/ b.mode = "whole"
       \/ /\ b.mode = "auto"
          /\ ~(HasCurrentFile(b.ed)
               /\ IsQueryAboutCurrentFile(b.query, GetCurrentFileName(b.ed)))

\* The exceptions raised while build b ran over workspace w: by
\* document.getText() ("accessor"), by a file system call of the discovery
\* pass ("discovery": the pass finds less than with every access succeeding)
\* and by new RegExp in the scoring ("scoring")
Raised(w, b) ==
    (IF b.fault THEN {"accessor"} ELSE {})
    \cup (IF DiscoveryRuns(b) /\ GetAllCodeFiles(w) # GetAllCodeFiles(Healed(w))
          THEN {"discovery"} ELSE {})
    \cup (IF DiscoveryRuns(b) /\ b.mode = "auto" /\ GetAllCodeFiles(w) # <<>>
             /\ ScoreThrows(b.query)
          THEN {"scoring"} ELSE {})

\* C4 (SpecTurn), as the code has it: no exception leaves
\* buildContextFromSelection, and handleChatMessage goes on, in the same turn,
\* to call the model with the string it returned, which is not blank; an
\* exception of the editor accessors is turned into the error notice
C4_ExceptionsAbsorbed ==
    last.n > 0 =>
        /\ ~last.out.thrown
        /\ last.called
        /\ ~IsBlank(last.out.ctx)
        /\ last.fault => last.out.ctx = ErrorNotice
        /\ \A call \in pending :
              call.message = last.query /\ call.context = last.out.ctx

\* getText() threw, and the model call of that turn carries the error notice
C4_Witness ==
    /\ last.n > 0
    /\ last.fault
    /\ "accessor" \in Raised(ws, last)
    /\ \E call \in pending : call.context = ErrorNotice

\* C4 (SpecTurn), as stated: whenever an exception was raised while the
\* context was built (discovery, scoring, editor accessors), the context of
\* the turn is a fallback notice
C4_RaisedGivesFallbackNotice ==
    (last.n > 0 /\ Raised(ws, last) # {}) =>
        /\ last.called
        /\ last.out.ctx \in {ErrorNotice, GeneralNotice}

\* C5 (Spec): at most one chat turn is in flight: a turn is open from its
\* sendMessage until its aiResponse or error is delivered
C5_OneTurnInFlight == Cardinality(open) <= 1

\* C6 (SpecAsm): a whole context has at most 20 file blocks; a block's content
\* is the file's full text when that has at most 1500 characters, and else
\* its first 1500 characters followed by the truncation marker
C6_WholeBlocksCapped ==
    (last.n > 0 /\ last.mode = "whole") =>
        /\ Cardinality(BlockStarts(last.out.ctx)) <= 20
        /\ \A i \in BlockStarts(last.out.ctx) :
              /\ BlockBody(last.out.ctx, i).k = "body"
              /\ HoldsText(ws.fs, BlockPath(last.out.ctx, i), BlockBody(last.out.ctx, i).t)
              /\ IF BlockBody(last.out.ctx, i).t.len <= 1500
                 THEN /\ BlockBody(last.out.ctx, i).n = BlockBody(last.out.ctx, i).t.len
                      /\ ~BlockMarked(last.out.ctx, i)
                 ELSE /\ BlockBody(last.out.ctx, i).n = 1500
                      /\ BlockMarked(last.out.ctx, i)

\* A workspace of more than 20 files: 20 blocks, one of a file of exactly 1500
\* characters given in full, one truncated
C6_Witness ==
    /\ last.mode = "whole"
    /\ Len(availableFiles) > 20
    /\ Cardinality(BlockStarts(last.out.ctx)) = 20
    /\ \E i \in BlockStarts(last.out.ctx) :
          BlockBody(last.out.ctx, i).t.len = 1500 /\ ~BlockMarked(last.out.ctx, i)
    /\ \E i \in BlockStarts(last.out.ctx) : BlockMarked(last.out.ctx, i)

\* C7 (SpecAsm): in auto mode with an active file and a query that refers to
\* it, the context is the file's label and content and the focus instruction
\* alone, with no additional file block
C7_ReferentialQueryOnlyActiveFile ==
    (/\ last.n > 0
     /\ last.mode = "auto"
     /\ last.ed.open
     /\ ~last.fault
     /\ IsQueryAboutCurrentFile(last.query, Basename(last.ed.rel))) =>
        /\ BlockStarts(last.out.ctx) = {}
        /\ last.out.ctx =
              <<Lit("Currently viewing file: "), PathPart(last.ed.rel), Lit("\nContent:\n"),
                Body(last.ed.text, last.ed.text.len), Lit("\n\n"),
                Lit("User is asking about the current file ("), PathPart(last.ed.rel),
                Lit("). Focus primarily on this file.")>>

\* C8 (SpecAsm): in auto mode, whatever the value of maxContextFiles, the
\* context has at most 2 additional file blocks
C8_AtMostTwoAdditionalFiles ==
    (last.n > 0 /\ last.mode = "auto") => Cardinality(BlockStarts(last.out.ctx)) <= 2

\* C9 (SpecAsm): in current mode with an active file, whatever its content,
\* the context is the file's path followed by its whole content
C9_CurrentFileShown ==
    (last.n > 0 /\ last.mode = "current" /\ last.ed.open /\ ~last.fault) =>
        last.out.ctx =
            <<Lit("Current file: "), PathPart(last.ed.rel), Lit("\n\nContent:\n"),
              Body(last.ed.text, last.ed.text.len)>>

\* C10 (SpecAsm): in current mode with no active editor the context is the
\* no-current-file notice itself, and no exception leaves the builder
C10_NoEditorNotice ==
    (last.n > 0 /\ last.mode = "current" /\ ~last.ed.open) =>
        /\ last.out.ctx = NoCurrentFileNotice
        /\ last.out.ctx # GeneralNotice
        /\ ~last.out.thrown

\* Current mode, no editor, over a workspace with files
C10_Witness ==
    /\ last.n > 0
    /\ last.mode = "current"
    /\ ~last.ed.open
    /\ Len(availableFiles) > 0
    /\ last.out.ctx = NoCurrentFileNotice

\* The file blocks of a selected context start at "--- File: "; the block's
\* path is one part on and its content three parts on
SelectedStarts(ctx) == {i \in 1..Len(ctx) : ctx[i] = Lit("--- File: ")}

\* The paths of a list of files, in order
Paths(files) == [i \in 1..Len(files) |-> files[i].path]

\* Whether path p is one of a sequence of paths
IsOneOf(p, paths) == \E i \in 1..Len(paths) : paths[i] = p

\* C11 (SpecAsm): in selected mode with nothing selected the context is the
\* no-files-selected notice itself: not blank, not the general or the error
\* notice, no exception, and no file block or editor content of another mode
C11_EmptySelectionNotice ==
    (last.n > 0 /\ last.mode = "selected" /\ contextSelection.selectedFiles = <<>>) =>
        /\ last.out.ctx = NoFilesSelectedNotice
        /\ ~IsBlank(last.out.ctx)
        /\ last.out.ctx \notin {GeneralNotice, ErrorNotice}
        /\ ~last.out.thrown
        /\ \A i \in 1..Len(last.out.ctx) : last.out.ctx[i].k = "lit"

\* Nothing selected, while the list holds files and an editor is open
C11_Witness ==
    /\ last.n > 0
    /\ last.mode = "selected"
    /\ contextSelection.selectedFiles = <<>>
    /\ Len(availableFiles) > 0
    /\ editor.open
    /\ last.out.ctx = NoFilesSelectedNotice

\* C12 (SpecAsm): in selected mode a selected path that no listed file has
\* gets no block and raises nothing, and the blocks are those the selection
\* without its stale paths gets
C12_StalePathSkipped ==
    (last.n > 0 /\ last.mode = "selected" /\ contextSelection.selectedFiles # <<>>) =>
        /\ ~last.out.thrown
        /\ last.out.ctx # ErrorNotice
        /\ \A i \in SelectedStarts(last.out.ctx) :
              IsOneOf(last.out.ctx[i + 1].p, Paths(availableFiles))
        /\ SubSeq(last.out.ctx, 4, Len(last.out.ctx))
              = SelectedBlocks(SelectSeq(contextSelection.selectedFiles,
                                         LAMBDA p : IsOneOf(p, Paths(availableFiles))),
                               availableFiles)

\* A selection of a stale path and a listed one: one block, the listed file's
C12_Witness ==
    /\ last.n > 0
    /\ last.mode = "selected"
    /\ \E i \in 1..Len(contextSelection.selectedFiles) :
          ~IsOneOf(contextSelection.selectedFiles[i], Paths(GetAllCodeFiles(ws)))
    /\ Cardinality(SelectedStarts(last.out.ctx)) = 1
    /\ \A i \in SelectedStarts(last.out.ctx) :
          IsOneOf(last.out.ctx[i + 1].p, contextSelection.selectedFiles)

\* The block "--- File: path ---" with the whole text of the workspace file
\* of that path
FullBlock(fsys, path) ==
    LET j == CHOOSE j \in 1..Len(fsys) : fsys[j].kind = "file" /\ RelPath(fsys[j]) = path
    IN  <<Lit("--- File: "), PathPart(path), Lit(" ---\n"),
          Body(fsys[j].text, fsys[j].text.len), Lit("\n\n")>>

\* C13 (SpecAsm): in selected mode the context is the header followed, in
\* selection order, by the full block of every selected path that a
\* discovery pass of the workspace returns
C13_SelectedDiscoveredFilesShown ==
    (last.n > 0 /\ last.mode = "selected" /\ contextSelection.selectedFiles # <<>>) =>
        SubSeq(last.out.ctx, 4, Len(last.out.ctx))
            = ConcatRange([i \in 1..Len(contextSelection.selectedFiles) |->
                              IF IsOneOf(contextSelection.selectedFiles[i],
                                         Paths(GetAllCodeFiles(ws)))
                              THEN FullBlock(ws.fs, contextSelection.selectedFiles[i])
                              ELSE <<>>],
                          1, Len(contextSelection.selectedFiles))

\* The file's extension without its dot
ExtensionOf(file) ==
    SubSeq(ToLower(ExtName(file.path)), 2, Len(ToLower(ExtName(file.path))))

\* What one token adds to the score of a file: 10 for the token in the path,
\* 5 for the extension in the token, the occurrences in the content up to 5
TokenScore(file, token) ==
    (IF Includes(ToLower(file.path), token) THEN 10 ELSE 0)
    + (IF Includes(token, ExtensionOf(file)) THEN 5 ELSE 0)
    + (IF Matches(file.content, token) < 5 THEN Matches(file.content, token) ELSE 5)

RECURSIVE TokensScore(_, _, _)
TokensScore(file, tokens, i) ==
    IF i > Len(tokens) THEN 0
    ELSE TokenScore(file, tokens[i]) + TokensScore(file, tokens, i + 1)

\* The score of a file for a query: the sum over the lowercased,
\* whitespace-separated tokens of more than 2 characters, and the size bonus
ExpectedScore(file, query) ==
    TokensScore(file, SelectSeq(SplitWs(ToLower(query)), LAMBDA t : Len(t) > 2), 1)
    + (IF file.size < 1000 THEN 2 ELSE IF file.size < 5000 THEN 1 ELSE 0)

\* The place of a path in a list of files
Place(files, path) == CHOOSE j \in 1..Len(files) : files[j].path = path

\* File x comes before file y in the ranking of the discovered files d for a
\* query: a higher score, or the same score and an earlier place in d
RanksBefore(d, query, x, y) ==
    \/ ExpectedScore(x, query) > ExpectedScore(y, query)
    \/ /\ ExpectedScore(x, query) = ExpectedScore(y, query)
       /\ Place(d, x.path) < Place(d, y.path)

\* r is the first maxFiles files of the ranking of d for a query
IsTopOfRanking(r, d, query, maxFiles) ==
    /\ Len(r) = (IF maxFiles < 0 THEN 0 ELSE IF maxFiles < Len(d) THEN maxFiles ELSE Len(d))
    /\ \A k \in 1..Len(r) : IsOneOf(r[k].path, Paths(d))
    /\ \A k \in 1..Len(r) : \A l \in (k + 1)..Len(r) : RanksBefore(d, query, r[k], r[l])
    /\ \A j \in 1..Len(d) :
          ~IsOneOf(d[j].path, Paths(r)) =>
              \A k \in 1..Len(r) : RanksBefore(d, query, r[k], d[j])

\* C14 (SpecAnalyzer): getRelevantFiles(query, maxFiles) returns the first
\* maxFiles of the discovered files in non-increasing order of score, files
\* of the same score in the order discovery produced them
C14_StableDescendingTop ==
    (analyzerCall.op = "getRelevantFiles" /\ analyzerCall.gen = fsChanges) =>
        IsTopOfRanking(analyzerCall.files, GetAllCodeFiles(ws),
                       analyzerCall.query, analyzerCall.maxFiles)

\* C15 (SpecAnalyzer): calculateRelevanceScore(file, query) returns the sum
\* over the query's tokens and the size bonus, for every file and query; for
\* 'parse json config' and config/parser.ts holding 'json' three times that
\* is at least 13
C15_ScoreIsTokenSum ==
    analyzerCall.op = "calculateRelevanceScore" =>
        /\ ~analyzerCall.threw
        /\ analyzerCall.value = ExpectedScore(analyzerCall.file, analyzerCall.query)
        /\ (/\ analyzerCall.file.path = <<"c", "o", "n", "f", "i", "g", "/", "p", "a", "r", "s", "e", "r", ".", "t", "s">>
            /\ analyzerCall.query = <<"p", "a", "r", "s", "e", " ", "j", "s", "o", "n", " ", "c", "o", "n", "f", "i", "g">>)
              => analyzerCall.value >= 13

\* The discovered file a numbered block of a context shows
BlockFile(d, ctx, i) == d[Place(d, BlockPath(ctx, i))]

\* A numbered block of path p stands before place i of the context
ListedBefore(ctx, i, p) ==
    \E h \in BlockStarts(ctx) : h < i /\ BlockPath(ctx, h) = p

\* Every file of d of a score above s is listed before place i
HigherListedBefore(d, ctx, query, i, s) ==
    \A j \in 1..Len(d) :
        ExpectedScore(d[j], query) > s => ListedBefore(ctx, i, d[j].path)

\* The numbered blocks of the context are in descending order of score
\* among the discovered files d
BlocksByScore(d, ctx, query) ==
    \A i \in BlockStarts(ctx) :
        HigherListedBefore(d, ctx, query, i, ExpectedScore(BlockFile(d, ctx, i), query))

\* C16 (SpecAsm): in auto mode with no active file the additional file blocks
\* are in descending order of score: every discovered file of a higher score
\* than a listed one is listed before it; of a.ts (score 3) and b.ts (score
\* 5) alone in the workspace, with the query 'foo', b.ts comes first
C16_AutoBlocksByScore ==
    (last.n > 0 /\ last.mode = "auto" /\ ~last.ed.open) =>
        /\ BlocksByScore(GetAllCodeFiles(ws), last.out.ctx, last.query)
        /\ (ws.fs = PairFiles /\ last.query = <<"f", "o", "o">>) =>
              /\ BlockStarts(last.out.ctx) # {}
              /\ \A i \in BlockStarts(last.out.ctx) :
                    BlockPath(last.out.ctx, i) = <<"a", ".", "t", "s">> =>
                        ListedBefore(last.out.ctx, i, <<"b", ".", "t", "s">>)

\* a.ts and b.ts alone, the query 'foo', no editor: both files are listed
C16_Witness ==
    /\ last.n > 0
    /\ last.mode = "auto"
    /\ ~last.ed.open
    /\ ws.fs = PairFiles
    /\ last.query = <<"f", "o", "o">>
    /\ Cardinality(BlockStarts(last.out.ctx)) = 2

\* C17 (SpecAnalyzer): calculateRelevanceScore returns a number for every
\* discovered file and every query, and no query makes getRelevantFiles
\* return nothing when files were discovered and maxFiles is positive
C17_ScoringTotal ==
    /\ analyzerCall.op = "calculateRelevanceScore" => ~analyzerCall.threw
    /\ (/\ analyzerCall.op = "getRelevantFiles"
        /\ analyzerCall.gen = fsChanges
        /\ analyzerCall.maxFiles > 0
        /\ GetAllCodeFiles(ws) # <<>>) => analyzerCall.files # <<>>

\* Entry e lies in directory d or below it
IsBelow(e, d) ==
    d.kind = "dir" /\ (e.dir = RelPath(d) \/ StartsWith(e.dir, RelPath(d) \o <<"/">>))

\* The entries of a workspace that discovery is to return: those it returns
\* when every access succeeds, whose own stat and read succeed and that lie
\* below no directory whose stat or listing fails
Accessible(w) ==
    {j \in 1..Len(w.fs) :
        /\ IsOneOf(RelPath(w.fs[j]), Paths(GetAllCodeFiles(Healed(w))))
        /\ w.fs[j].stat
        /\ w.fs[j].read
        /\ \A k \in 1..Len(w.fs) :
              IsBelow(w.fs[j], w.fs[k]) => w.fs[k].stat /\ w.fs[k].list}

\* C18 (SpecAnalyzer): a file or directory whose access fails is skipped and
\* nothing else: every other eligible file of the workspace is returned
C18_OnlyFailingEntrySkipped ==
    (analyzerCall.op = "getAllCodeFiles" /\ analyzerCall.gen = fsChanges) =>
        \A j \in Accessible(ws) : IsOneOf(RelPath(ws.fs[j]), Paths(analyzerCall.files))

\* C19 (SpecAnalyzer): with no workspace folder, or one that does not exist
\* on disk, getAllCodeFiles and getRelevantFiles return the empty list and
\* throw nothing, and the file list is empty
C19_NoRootNoFiles ==
    ws.root # "ok" =>
        /\ availableFiles = <<>>
        /\ analyzerCall.op \in {"getAllCodeFiles", "getRelevantFiles"} =>
              analyzerCall.files = <<>> /\ ~analyzerCall.threw

\* getAllCodeFiles called on a workspace folder that does not exist
C19_Witness ==
    /\ ws.root = "gone"
    /\ analyzerCall.op = "getAllCodeFiles"
    /\ analyzerCall.files = <<>>

BlocksHoldCurrentText(w, ctx) ==
    /\ \A i \in BlockStarts(ctx) : HoldsText(w.fs, BlockPath(ctx, i), BlockBody(ctx, i).t)
    /\ \A i \in SelectedStarts(ctx) : HoldsText(w.fs, ctx[i + 1].p, ctx[i + 3].t)

\* C21 (SpecFs): every file block of a selected, auto or whole context holds
\* the text its workspace file has when the context is built, so an edit made
\* after an earlier discovery pass shows in the next context
C21_ContextReadsCurrentFiles ==
    [][(last'.n > last.n /\ last'.mode \in {"selected", "auto", "whole"})
          => BlocksHoldCurrentText(ws, last'.out.ctx)]_vars

\* ------------------------------------------------------------------------
\* Chat turns: answers, failures, the transcript
\* ------------------------------------------------------------------------

\* The webview takes an 'aiResponse' or 'error' message off its queue
AnswerDelivered ==
    /\ toWv # <<>>
    /\ Head(toWv).type \in {"aiResponse", "error"}
    /\ toWv' = Tail(toWv)

\* C22 (SpecChat): with every model call settling, every accepted sendMessage
\* is answered (its turn does not stay open), each answer delivered is the
\* first one of its turn, and its delivery, an error included, leaves
\* isWaitingForResponse false
C22_EveryTurnAnswered ==
    /\ \A t \in 1..MaxTurns : (t \in open) ~> (t \notin open)
    /\ [][AnswerDelivered =>
             (Head(toWv).turn \in open /\ ~wv'.isWaitingForResponse)]_vars

\* Both turns answered, the first by an error: its user message has no reply
C22_Witness ==
    /\ turns = MaxTurns
    /\ open = {}
    /\ pending = {}
    /\ toWv = <<>>
    /\ ~wv.isWaitingForResponse
    /\ \E i \in 1..Len(chatHistory) :
          /\ chatHistory[i].isUser
          /\ \A j \in 1..Len(chatHistory) :
                chatHistory[j].turn = chatHistory[i].turn => chatHistory[j].isUser

\* The model call c fails in this step: it is no longer under way and an
\* 'error' message is queued for the webview
FailsNow(c) ==
    /\ c \in pending
    /\ pending' = pending \ {c}
    /\ Len(toWv') = Len(toWv) + 1
    /\ toWv'[Len(toWv')].type = "error"

HasUserMessage(history, turn) ==
    \E i \in 1..Len(history) : history[i].turn = turn /\ history[i].isUser

HasAiMessage(history, turn) ==
    \E i \in 1..Len(history) : history[i].turn = turn /\ ~history[i].isUser

IsPrefix(s, t) == Len(s) <= Len(t) /\ SubSeq(t, 1, Len(s)) = s

C24_AutoStartsWithActiveFile ==
    (last.n > 0 /\ last.mode = "auto" /\ last.ed.open /\ ~last.fault) =>
        /\ Len(last.out.ctx) >= 5
        /\ SubSeq(last.out.ctx, 1, 5)
              = <<Lit("Currently viewing file: "), PathPart(last.ed.rel),
                  Lit("\nContent:\n"), Body(last.ed.text, last.ed.text.len), Lit("\n\n")>>
        /\ \A i \in BlockStarts(last.out.ctx) : i > 5

\* The path of a scored file contains the active file's basename
Duplicates(path, base) == base # <<>> /\ Includes(path, base)

\* File j of the discovered files d is among the first k of their ranking
IsInTop(d, query, k, j) ==
    Cardinality({x \in 1..Len(d) : RanksBefore(d, query, d[x], d[j])}) < k

\* The additional blocks of an auto context over the discovered files d: none
\* for a path that contains the active file's basename, none for the active
\* file itself, and one for every other file among the first k of the ranking
AdditionalBlocks(d, ctx, query, ed, k) ==
    /\ \A i \in BlockStarts(ctx) :
          /\ ~Duplicates(BlockPath(ctx, i), Basename(ed.rel))
          /\ ed.open => BlockPath(ctx, i) # ed.rel
    /\ \A j \in 1..Len(d) :
          (IsInTop(d, query, k, j) /\ ~Duplicates(d[j].path, Basename(ed.rel))) =>
              \E i \in BlockStarts(ctx) : BlockPath(ctx, i) = d[j].path

\* C25 (SpecAsm): in auto mode with a query that does not refer to the active
\* file, no additional block is emitted for a scored file whose path contains
\* the active file's basename, so the active file's content is not emitted
\* twice, and every other file among the top min(maxContextFiles, 2) scored
\* files gets a block
C25_AutoSkipsActiveFile ==
    (/\ last.n > 0
     /\ last.mode = "auto"
     /\ ~last.fault
     /\ ~IsQueryAboutCurrentFile(last.query, Basename(last.ed.rel))) =>
        AdditionalBlocks(GetAllCodeFiles(ws), last.out.ctx, last.query, last.ed,
                         Min(IF config.set THEN config.val ELSE SchemaDefault, AutoCap))

\* ------------------------------------------------------------------------
\* Discovery: ignored directories
\* ------------------------------------------------------------------------

\* Path p lies below the directory of path d
IsBeneath(p, d) == StartsWith(p, d \o <<"/">>)

\* The directories of a workspace the ignore matcher answers true for
IgnoredDirs(w) ==
    {j \in 1..Len(w.fs) : w.fs[j].kind = "dir" /\ Ignores(w.rules, RelPath(w.fs[j]))}

\* C26 (SpecAnalyzer): a getAllCodeFiles pass lists no directory whose
\* relative path the ignore matcher answers true for, and makes no statSync,
\* readFileSync or readdirSync call on anything beneath it
C26_IgnoredDirectoryNotEntered ==
    (analyzerCall.op = "getAllCodeFiles" /\ analyzerCall.gen = fsChanges) =>
        \A j \in IgnoredDirs(ws) :
            \A a \in analyzerCall.accesses :
                /\ ~(a.op = "readdirSync" /\ a.path = RelPath(ws.fs[j]))
                /\ ~IsBeneath(a.path, RelPath(ws.fs[j]))

\* A pass over a workspace with ignored directories that hold files: it
\* listed the root and node_modules and read a.ts
C26_Witness ==
    /\ analyzerCall.op = "getAllCodeFiles"
    /\ analyzerCall.gen = fsChanges
    /\ \E j \in IgnoredDirs(ws) :
          \E k \in 1..Len(ws.fs) : ws.fs[k].dir = RelPath(ws.fs[j])
    /\ Access("readdirSync", <<"n", "o", "d", "e", "_", "m", "o", "d", "u", "l", "e", "s">>)
          \in analyzerCall.accesses
    /\ Access("readFileSync", <<"a", ".", "t", "s">>) \in analyzerCall.accesses

\* ------------------------------------------------------------------------
\* The context selection
\* ------------------------------------------------------------------------

\* C27 (Spec): contextSelection changes only when the extension handles an
\* 'updateContextMode' message, which sets its mode, or an
\* 'updateSelectedFiles' message, which sets its selectedFiles; a chat turn,
\* clearChat, testConnection, refreshContext, requestFileList and a change of
\* the active editor leave it as it is
C27_OnlyUpdatesChangeSelection ==
    [][contextSelection' # contextSelection =>
          /\ toExt # <<>>
          /\ toExt' = Tail(toExt)
          /\ Head(toExt).type \in {"updateContextMode", "updateSelectedFiles"}
          /\ Head(toExt).type = "updateContextMode" =>
                contextSelection' = [contextSelection EXCEPT !.mode = Head(toExt).mode]
          /\ Head(toExt).type = "updateSelectedFiles" =>
                contextSelection' =
                    [contextSelection EXCEPT !.selectedFiles = Head(toExt).selectedFiles]]_vars

\* A selection made by the two messages and kept while the chat is cleared:
\* the webview is told to clear and the selection stands
C27_Witness ==
    /\ contextSelection.mode = "selected"
    /\ contextSelection.selectedFiles # <<>>
    /\ toWv # <<>>
    /\ Head(toWv).type = "clearChat"

\* ------------------------------------------------------------------------
\* The prompt and the transcript
\* ------------------------------------------------------------------------

\* The prompt holds the 'Code Context:' section around this context
HasCodeContext(prompt, context) ==
    \E i \in 1..Len(prompt) :
        /\ prompt[i] = Lit("Analyze the code and answer the question.\n\nCode Context:\n")
        /\ i + Len(context) + 4 <= Len(prompt)
        /\ prompt[i + 1] = Fence
        /\ SubSeq(prompt, i + 3, i + Len(context) + 2) = context
        /\ prompt[i + Len(context) + 4] = Fence

\* C28 (SpecTurn): the context of every model call under way is not blank,
\* so that its prompt has the 'Code Context:' section with that context and
\* is never the prompt without context ('Answer this question: ...')
C28_PromptHasCodeContext ==
    \A c \in pending :
        /\ c.context # <<>>
        /\ ~IsBlank(c.context)
        /\ HasCodeContext(c.prompt, c.context)
        /\ \A i \in 1..Len(c.prompt) : c.prompt[i] # Lit("Answer this question: ")

\* A call whose switch built the empty context (auto mode, no active file,
\* nothing relevant): the general notice is the code context of its prompt
C28_Witness ==
    /\ last.n > 0
    /\ last.out.raw = <<>>
    /\ \E c \in pending :
          /\ c.context = GeneralNotice
          /\ c.message = last.query
          /\ HasCodeContext(c.prompt, GeneralNotice)

\* C29 (SpecChat): after any sequence of sends, replies, failures and
\* clear-chat requests, a clearChat handled while a turn is under way
\* included, every AI message of the transcript comes after the user message
\* of its turn
C29_AiMessageFollowsUserMessage ==
    \A i \in 1..Len(chatHistory) :
        ~chatHistory[i].isUser =>
            \E j \in 1..(i - 1) :
                chatHistory[j].isUser /\ chatHistory[j].turn = chatHistory[i].turn

\* ------------------------------------------------------------------------
\* Contexts without file content
\* ------------------------------------------------------------------------

\* The literal notices buildContextFromSelection and its builders return
Notices == {GeneralNotice, ErrorNotice, NoCurrentFileNotice, NoFilesSelectedNotice}

\* The context holds the content of some file
HasFileContent(ctx) == \E i \in 1..Len(ctx) : ctx[i].k = "body"

\* C30 (SpecAsm): a context that holds no file content at all (whole mode
\* with no discoverable file, selected mode with every selected path stale,
\* auto mode with nothing found) is one of the literal notices, not a bare
\* header announcing files
C30_NoContentMeansNotice ==
    (last.n > 0 /\ ~HasFileContent(last.out.ctx)) => last.out.ctx \in Notices

====
